---- MODULE Spec2Model ----
(***************************************************************************)
(* Trip-leg construction of src/thor/triplegbuilder.cc.                    *)
(*                                                                         *)
(* TripLegBuilder::Build is modelled as a state machine over its           *)
(* arguments (options, controller, graphreader, mode_costing, path,        *)
(* origin, dest, through_loc, trip_path, interrupt_callback,               *)
(* edge_trimming) and its locals.  One action stands for one stage of the  *)
(* function; pc is the position of the call.                               *)
(*                                                                         *)
(* Geometry is one-dimensional: a point is an integer coordinate along     *)
(* the route, a directed edge of the path occupies kPctScale units, and a  *)
(* fraction along an edge (percent_along, distance_along, a traffic        *)
(* breakpoint) is a numerator over kPctScale, so that the breakpoint byte  *)
(* b of the traffic record is the fraction b / 255.0 of the source.        *)
(***************************************************************************)
EXTENDS Integers, Sequences, FiniteSets, TLC

\* ------------------------------------------------------------------------
\* Bounds of the model
\* ------------------------------------------------------------------------
MaxPath == 3
MaxRecost == 2
MaxAdminCalls == 4

\* ------------------------------------------------------------------------
\* Program constants
\* ------------------------------------------------------------------------
\* breakpoint bytes are divided by 255.0
kPctScale == 255
\* lower clamp of an edge length: 0.001 km, kept here in metres
kMinLengthM == 1

\* An optional protobuf field that was never set.
Unset == 0 - 1
\* GraphId{}: the invalid graph id.
kInvalidGraphId == 0 - 2
\* Result of converting a non-finite double to an unsigned integer; the
\* conversion is undefined, the value stands for whatever the build yields.
Indeterminate == 0 - 3

Max(a, b) == IF a >= b THEN a ELSE b
Abs(a) == IF a >= 0 THEN a ELSE 0 - a
Reverse(s) == [i \in 1..Len(s) |-> s[Len(s) + 1 - i]]
Last(s) == s[Len(s)]
\* round-half-up of num / den for den > 0 (the source adds 0.5 and truncates)
RoundDiv(num, den) == (2 * num + den) \div (2 * den)

\* ------------------------------------------------------------------------
\* AttributesController: the set of enabled attribute keys
\* ------------------------------------------------------------------------
AdminAttributes ==
  {"kAdminCountryCode", "kAdminCountryText", "kAdminStateCode", "kAdminStateText"}
ShapeAttributesAttributes ==
  {"kShapeAttributesTime", "kShapeAttributesLength", "kShapeAttributesSpeed"}
NodeEdgeAttributes ==
  {"kNodeaAdminIndex", "kNodeElapsedTime", "kNodeTransitionTime", "kEdgeId",
   "kEdgeSpeed", "kEdgeLength", "kEdgeBeginShapeIndex", "kEdgeEndShapeIndex",
   "kEdgeTraversability",
   "kShape"}
TransitAttributes ==
  {"kNodeTransitPlatformInfoType", "kNodeTransitPlatformInfoArrivalDateTime",
   "kNodeTransitPlatformInfoDepartureDateTime", "kNodeTransitPlatformInfoAssumedSchedule",
   "kEdgeTransitRouteInfoBlockId", "kEdgeTransitRouteInfoTripId"}
AllAttributes ==
  AdminAttributes \cup ShapeAttributesAttributes \cup NodeEdgeAttributes \cup TransitAttributes

\* controller.attributes.at(key)
attributes_at(ctl, key) == key \in ctl
\* controller.category_attribute_enabled(category): some attribute of the
\* category is enabled
category_attribute_enabled(ctl, category) == (ctl \cap category) # {}

\* ------------------------------------------------------------------------
\* Admin interning
\* ------------------------------------------------------------------------
\* admin_info_map.find(admin_info): the index stored for the descriptor, or
\* Unset for end().  The map is kept as a set of <<descriptor, index>> pairs.
admin_map_find(admin_info_map, admin_info) ==
  IF \E pr \in admin_info_map : pr[1] = admin_info
  THEN (CHOOSE pr \in admin_info_map : pr[1] = admin_info)[2]
  ELSE Unset

\* every request taken for a new descriptor
GetAdminIndex_NoLookup(admin_info, admin_info_map, admin_info_list) ==
  [admin_index |-> Len(admin_info_list),
   map |-> admin_info_map \cup {<<admin_info, Len(admin_info_list)>>},
   list |-> Append(admin_info_list, admin_info)]

\* GetAdminIndex: result index and the updated map and list
GetAdminIndex(admin_info, admin_info_map, admin_info_list) ==
  LET existing_admin == admin_map_find(admin_info_map, admin_info) IN
  IF existing_admin = Unset
  THEN [admin_index |-> Len(admin_info_list),
        map |-> admin_info_map \cup {<<admin_info, Len(admin_info_list)>>},
        list |-> Append(admin_info_list, admin_info)]
  ELSE [admin_index |-> existing_admin,
        map |-> admin_info_map,
        list |-> admin_info_list]

\* One TripLeg_Admin per entry of the list, each field gated by its attribute
TripAdmin(ctl, admin_info) ==
  [country_code |-> IF attributes_at(ctl, "kAdminCountryCode") THEN admin_info ELSE "",
   country_text |-> IF attributes_at(ctl, "kAdminCountryText") THEN admin_info ELSE "",
   state_code |-> IF attributes_at(ctl, "kAdminStateCode") THEN admin_info ELSE "",
   state_text |-> IF attributes_at(ctl, "kAdminStateText") THEN admin_info ELSE ""]

\* AssignAdmins: the leg's admin list after the call
AssignAdmins(ctl, leg_admin, admin_info_list) ==
  IF category_attribute_enabled(ctl, AdminAttributes)
  THEN leg_admin \o [i \in 1..Len(admin_info_list) |-> TripAdmin(ctl, admin_info_list[i])]
  ELSE leg_admin

\* ------------------------------------------------------------------------
\* Shapes
\* ------------------------------------------------------------------------
\* midgard::trim_shape(start, start_vertex, end, end_vertex, shape): the
\* prefix up to start (distance along the shape) becomes the single point
\* start_vertex, the suffix beyond end becomes end_vertex.
RECURSIVE AlongOf(_, _)
AlongOf(shape, i) ==
  IF i <= 1 THEN 0 ELSE AlongOf(shape, i - 1) + Abs(shape[i] - shape[i - 1])
trim_shape(start, start_vertex, end, end_vertex, shape) ==
  LET inner == {i \in 1..Len(shape) : AlongOf(shape, i) > start /\ AlongOf(shape, i) < end}
      RECURSIVE Pick(_)
      Pick(i) == IF i > Len(shape) THEN <<>>
                 ELSE IF i \in inner THEN <<shape[i]>> \o Pick(i + 1)
                 ELSE Pick(i + 1)
  IN <<start_vertex>> \o Pick(1) \o <<end_vertex>>

\* tile->trafficspeed(edge) turned into the list of <<fraction, speed>>
\* tuples, the sentinel <<tgt_pct, speed>> included
TrafficSpeeds(traffic_speed, speed, tgt_pct, cut_for_traffic) ==
  LET s1 == IF cut_for_traffic /\ traffic_speed.breakpoint1 > 0
            THEN <<<<traffic_speed.breakpoint1, speed>>>> ELSE <<>>
      s2 == IF s1 # <<>> /\ traffic_speed.breakpoint2 > 0
            THEN Append(s1, <<traffic_speed.breakpoint2, speed>>) ELSE s1
      s3 == IF Len(s2) = 2 /\ traffic_speed.speed3_known
            THEN Append(s2, <<kPctScale, speed>>) ELSE s2
  IN IF s3 = <<>> \/ Last(s3)[1] < tgt_pct THEN Append(s3, <<tgt_pct, speed>>) ELSE s3

\* the search for the first tuple left out: the cursor starts at the first tuple
FindSpeed_First(speeds, distance_total_pct, k) == k

\* std::find_if(speeds.cbegin(), speeds.cend(), distance_total_pct <= pct):
\* position (from 1) of the first such tuple, Len + 1 for cend()
RECURSIVE FindSpeed(_, _, _)
FindSpeed(speeds, distance_total_pct, k) ==
  IF k > Len(speeds) THEN k
  ELSE IF distance_total_pct <= speeds[k][1] THEN k
  ELSE FindSpeed(speeds, distance_total_pct, k + 1)

\* the three values pushed for a segment of `distance` metres at `speed`
\* (a fraction num / den in metres per second)
AttrTime(distance, speed) ==
  IF speed.den = 0 THEN 0
  ELSE IF speed.num <= 0 \/ speed.den < 0 THEN Indeterminate
  ELSE RoundDiv(distance * speed.den * 1000, speed.num)
AttrLength(distance) == distance * 10
AttrSpeed(distance, speed) ==
  IF distance = 0 \/ speed.den <= 0 \/ speed.num <= 0 THEN Indeterminate
  ELSE RoundDiv(10 * speed.num, speed.den)

InsertAt(s, i, x) == SubSeq(s, 1, i - 1) \o <<x>> \o SubSeq(s, i, Len(s))

\* SetShapeAttributes.  shape_begin is the C++ (0-based) index; the result is
\* the shape with the synthetic vertices inserted, the leg's shape_attributes
\* and whether speed_itr was dereferenced at cend().
SetShapeAttributes(ctl, traffic_speed, edge_length, shape, shape_begin, shape_attributes, src_pct, tgt_pct, edge_seconds, cut_for_traffic) ==
  IF ~shape_attributes.has
  THEN [shape |-> shape, shape_attributes |-> shape_attributes, past_end |-> FALSE,
        speeds |-> <<>>, speed_itr |-> 0]
  ELSE
    LET speed == [num |-> edge_length * (tgt_pct - src_pct), den |-> kPctScale * edge_seconds]
        speeds == TrafficSpeeds(traffic_speed, speed, tgt_pct, cut_for_traffic)
        RECURSIVE Walk(_, _, _, _, _)
        \* i is the C++ index of the current point: shape[i + 1] here
        Walk(shp, i, distance_total_pct, speed_itr, attrs) ==
          IF i >= Len(shp)
          THEN [shape |-> shp, shape_attributes |-> attrs, past_end |-> FALSE,
                speeds |-> speeds, speed_itr |-> speed_itr]
          ELSE IF speed_itr > Len(speeds)
          THEN [shape |-> shp, shape_attributes |-> attrs, past_end |-> TRUE,
                speeds |-> speeds, speed_itr |-> speed_itr]
          ELSE
            LET full == Abs(shp[i + 1] - shp[i])
                distance_pct == (full * kPctScale) \div edge_length
                cut == (distance_total_pct + distance_pct > speeds[speed_itr][1])
                        /\ speed_itr + 1 <= Len(speeds)
                distance == IF cut
                            THEN ((speeds[speed_itr][1] - distance_total_pct) * edge_length)
                                   \div kPctScale
                            ELSE full
                point == IF shp[i + 1] >= shp[i] THEN shp[i] + distance ELSE shp[i] - distance
                shp2 == IF cut THEN InsertAt(shp, i + 1, point) ELSE shp
                next_total == IF cut THEN speeds[speed_itr][1]
                              ELSE distance_total_pct + distance_pct
                spd == speeds[speed_itr][2]
                attrs2 ==
                  [has |-> TRUE,
                   time |-> IF attributes_at(ctl, "kShapeAttributesTime")
                            THEN Append(attrs.time, AttrTime(distance, spd)) ELSE attrs.time,
                   length |-> IF attributes_at(ctl, "kShapeAttributesLength")
                              THEN Append(attrs.length, AttrLength(distance)) ELSE attrs.length,
                   speed |-> IF attributes_at(ctl, "kShapeAttributesSpeed")
                             THEN Append(attrs.speed, AttrSpeed(distance, spd)) ELSE attrs.speed]
            IN Walk(shp2, i + 1, next_total, IF cut THEN speed_itr + 1 ELSE speed_itr, attrs2)
    IN Walk(shape, shape_begin + 1, src_pct, FindSpeed(speeds, src_pct, 1), shape_attributes)

\* ------------------------------------------------------------------------
\* Locations
\* ------------------------------------------------------------------------
\* position (from 1) of the first candidate with the given graph id, 0 if none
RECURSIVE FindPathEdge(_, _, _)
FindPathEdge(path_edges, edge_id, i) ==
  IF i > Len(path_edges) THEN 0
  ELSE IF path_edges[i].graph_id = edge_id THEN i
  ELSE FindPathEdge(path_edges, edge_id, i + 1)

\* the matching candidate found but the one at position 0 kept
RemovePathEdges_NoSwap(location, edge_id) ==
  LET pos == FindPathEdge(location.path_edges, edge_id, 1) IN
  IF pos = 0 THEN [location EXCEPT !.path_edges = <<>>]
  ELSE IF Len(location.path_edges) > 1
  THEN [location EXCEPT !.path_edges = <<location.path_edges[1]>>]
  ELSE location

\* RemovePathEdges: the location with all candidates but edge_id removed
RemovePathEdges(location, edge_id) ==
  LET pos == FindPathEdge(location.path_edges, edge_id, 1) IN
  IF pos = 0 THEN [location EXCEPT !.path_edges = <<>>]
  ELSE IF Len(location.path_edges) > 1
  THEN [location EXCEPT !.path_edges = <<location.path_edges[pos]>>]
  ELSE location

\* std::find_if(pe, path_end, id in ids): position (from 1) in the path,
\* Len(path) + 1 for path_end
RECURSIVE FindInPath(_, _, _)
FindInPath(pth, ids, pe) ==
  IF pe > Len(pth) THEN pe
  ELSE IF pth[pe].edgeid \in ids THEN pe
  ELSE FindInPath(pth, ids, pe + 1)

\* pe->edgeid; reading *path_end is outside the path and yields beyond
EdgeIdAt(pth, pe, beyond) == IF pe <= Len(pth) THEN pth[pe].edgeid ELSE beyond

\* CopyLocations: the leg's location list after the call
CopyLocations(leg_location, orig, throughs, dst, pth, beyond) ==
  LET RECURSIVE Throughs(_, _)
      Throughs(i, pe) ==
        IF i > Len(throughs) THEN <<>>
        ELSE LET ids == {throughs[i].path_edges[j].graph_id : j \in 1..Len(throughs[i].path_edges)}
                 found == FindInPath(pth, ids, pe)
             IN <<RemovePathEdges(throughs[i], EdgeIdAt(pth, found, beyond))>>
                  \o Throughs(i + 1, found)
  IN leg_location
       \o <<RemovePathEdges(orig, pth[1].edgeid)>>
       \o Throughs(1, 1)
       \o <<RemovePathEdges(dst, Last(pth).edgeid)>>

\* ------------------------------------------------------------------------
\* The graph behind the reader
\* ------------------------------------------------------------------------
\* Path step i uses directed edge i, from node i - 1 to node i.  Every edge is
\* kEdgeLengthM metres long, so that a fraction along an edge is a whole number
\* of metres; its geometry `shape` is given in the direction of the directed
\* edge, in metres along the edge.
kEdgeLengthM == kPctScale
Admins == {"US", "CA"}
\* the access bits of a directed edge, as the set of the bits that are set
kAutoAccess == {"auto"}
kPedestrianAccess == {"pedestrian"}
kBicycleAccess == {"bicycle"}
kAllAccess == kAutoAccess \cup kPedestrianAccess \cup kBicycleAccess
NoTraffic == [breakpoint1 |-> 0, breakpoint2 |-> 0, speed3_known |-> FALSE]
\* GetTransitDeparture: the departure of a line and trip, `found` false for
\* nullptr; end_day is that of the schedule the departure refers to
Departure(departure_time, elapsed_time, blockid, end_day) ==
  [found |-> TRUE, departure_time |-> departure_time, elapsed_time |-> elapsed_time,
   blockid |-> blockid, end_day |-> end_day]
NoDeparture ==
  [found |-> FALSE, departure_time |-> 0, elapsed_time |-> 0, blockid |-> 0, end_day |-> 0]
EdgePlain ==
  [forward |-> TRUE, shape |-> <<0, 255>>, traffic |-> NoTraffic, leaves_tile |-> FALSE,
   end_admin |-> "US", transit_line |-> FALSE, lane_tokens_ok |-> TRUE,
   forwardaccess |-> kAllAccess, reverseaccess |-> kAllAccess, turnlanes |-> FALSE,
   laneconnectivity |-> FALSE, sign |-> FALSE, access_restriction |-> FALSE,
   localedgeidx |-> 0, opp_local_idx |-> 1, is_shortcut |-> FALSE, shortcut |-> {},
   superseded |-> {}, use |-> "kRoad", departure |-> NoDeparture]
EdgeBackward ==
  [forward |-> FALSE, shape |-> <<0, 100, 255>>,
   traffic |-> [breakpoint1 |-> 64, breakpoint2 |-> 192, speed3_known |-> FALSE],
   leaves_tile |-> TRUE, end_admin |-> "CA", transit_line |-> FALSE, lane_tokens_ok |-> TRUE,
   forwardaccess |-> kAllAccess, reverseaccess |-> kAllAccess, turnlanes |-> FALSE,
   laneconnectivity |-> FALSE, sign |-> FALSE, access_restriction |-> FALSE,
   localedgeidx |-> 0, opp_local_idx |-> 1, is_shortcut |-> FALSE, shortcut |-> {},
   superseded |-> {}, use |-> "kRoad", departure |-> NoDeparture]
EdgeOneBreak ==
  [forward |-> TRUE, shape |-> <<0, 100, 255>>,
   traffic |-> [breakpoint1 |-> 128, breakpoint2 |-> 0, speed3_known |-> FALSE],
   leaves_tile |-> TRUE, end_admin |-> "US", transit_line |-> FALSE, lane_tokens_ok |-> TRUE,
   forwardaccess |-> kAllAccess, reverseaccess |-> kAllAccess, turnlanes |-> FALSE,
   laneconnectivity |-> FALSE, sign |-> FALSE, access_restriction |-> FALSE,
   localedgeidx |-> 0, opp_local_idx |-> 1, is_shortcut |-> FALSE, shortcut |-> {},
   superseded |-> {}, use |-> "kRoad", departure |-> NoDeparture]
EdgeThreeSpeeds ==
  [forward |-> TRUE, shape |-> <<0, 128, 255>>,
   traffic |-> [breakpoint1 |-> 64, breakpoint2 |-> 128, speed3_known |-> TRUE],
   leaves_tile |-> FALSE, end_admin |-> "CA", transit_line |-> FALSE, lane_tokens_ok |-> TRUE,
   forwardaccess |-> kAllAccess, reverseaccess |-> kAllAccess, turnlanes |-> FALSE,
   laneconnectivity |-> FALSE, sign |-> FALSE, access_restriction |-> FALSE,
   localedgeidx |-> 0, opp_local_idx |-> 1, is_shortcut |-> FALSE, shortcut |-> {},
   superseded |-> {}, use |-> "kRoad", departure |-> NoDeparture]
\* `idx`-th edge at its begin node and `opp`-th at its end node
EdgeIndexed(idx, opp) == [EdgePlain EXCEPT !.localedgeidx = idx, !.opp_local_idx = opp]
\* a shortcut with the given mask, an edge superseded by the shortcuts of a mask
EdgeShortcut(idx, opp, mask) ==
  [EdgeIndexed(idx, opp) EXCEPT !.is_shortcut = TRUE, !.shortcut = mask]
EdgeSuperseded(idx, mask) == [EdgeIndexed(idx, 0) EXCEPT !.superseded = mask]
\* NodeInfo with the directed edges that leave the node on its own level and,
\* per NodeTransition, those of the node it leads to (`tile` false: the
\* reader does not have the tile of that node)
NodeWith(edges, transitions) ==
  [edges |-> edges, transitions |-> transitions, is_transit |-> FALSE]
PlainNode == NodeWith(<<>>, <<>>)
\* a transit platform
TransitNode == [PlainNode EXCEPT !.is_transit = TRUE]
Transition(tile, edges) == [tile |-> tile, edges |-> edges]

\* a transit line: the costing's EdgeCost throws on it
EdgeTransit == [EdgePlain EXCEPT !.transit_line = TRUE, !.use = "kBus"]
\* the edges of a transit leg
EdgeRail(departure) ==
  [EdgePlain EXCEPT !.transit_line = TRUE, !.use = "kRail", !.departure = departure]
EdgeBus(departure) ==
  [EdgePlain EXCEPT !.transit_line = TRUE, !.use = "kBus", !.departure = departure]
EdgePlatformConnection == [EdgePlain EXCEPT !.use = "kPlatformConnection"]
\* lane connectivity whose to_lanes holds a token std::stoul cannot parse
EdgeBadLanes ==
  [EdgePlain EXCEPT !.lane_tokens_ok = FALSE, !.laneconnectivity = TRUE,
                    !.access_restriction = TRUE]
\* an edge with turn lanes, lane connectivity, signs and an access restriction
EdgeDecorated ==
  [EdgePlain EXCEPT !.turnlanes = TRUE, !.laneconnectivity = TRUE, !.sign = TRUE,
                    !.access_restriction = TRUE]
\* an edge with the given direction and access bits
EdgeWithAccess(forward, forwardaccess, reverseaccess) ==
  [EdgePlain EXCEPT !.forward = forward, !.forwardaccess = forwardaccess,
                    !.reverseaccess = reverseaccess]
RoadEdges == {EdgePlain, EdgeBackward, EdgeOneBreak, EdgeThreeSpeeds}
ThrowingEdges == {EdgeTransit, EdgeBadLanes}

\* edgeinfo.shape(): the geometry as stored, in the direction of the forward
\* twin of the edge
StoredShape(directededge) ==
  IF directededge.forward THEN directededge.shape ELSE Reverse(directededge.shape)

\* coordinate of the begin node of path step i (from 1)
BaseOf(i) == (i - 1) * kEdgeLengthM
Shift(shape, base) == [j \in 1..Len(shape) |-> base + shape[j]]

\* graphreader.GetGraphTile(node) # nullptr.  The tile of a node that begins a
\* path edge holds that edge, so only the end node of the last edge can lie in
\* a tile the reader does not have.
HasTile(reader, node) ==
  ~(reader.end_tile_missing /\ node = Len(reader.directededge))
\* admin descriptor of a node
NodeAdmin(reader, node) ==
  IF node = 0 THEN reader.start_admin ELSE reader.directededge[node].end_admin

\* GraphReader::GetOpposingEdge: the twin of a directed edge
OpposingEdge(directededge) ==
  [directededge EXCEPT !.forward = ~directededge.forward,
                       !.forwardaccess = directededge.reverseaccess,
                       !.reverseaccess = directededge.forwardaccess,
                       !.shape = [j \in 1..Len(directededge.shape) |->
                                    kEdgeLengthM - directededge.shape[Len(directededge.shape) + 1 - j]]]

\* uint32_t prior_opp_local_index = -1: no local index equals it
kNoLocalIndex == 0 - 1

\* ------------------------------------------------------------------------
\* Leg records
\* ------------------------------------------------------------------------
NoEdge ==
  [step |-> 0, id |-> Unset, length |-> Unset,
   begin_shape_index |-> Unset, end_shape_index |-> Unset,
   traversability |-> "unset", has_time_restrictions |-> "unset", restriction |-> "unset",
   turn_lanes |-> "unset", lane_connectivity |-> "unset", sign |-> "unset",
   block_id |-> Unset, trip_id |-> Unset]
\* an empty std::string of a date and time
kEmptyTime == 0 - 2
NoPlatformInfo ==
  [has |-> FALSE, type |-> "unset", arrival_date_time |-> Unset,
   departure_date_time |-> Unset, assumed_schedule |-> FALSE]
\* trip_path.add_node()
NewNode ==
  [has_edge |-> FALSE, edge |-> NoEdge, admin_index |-> Unset, intersecting_edge |-> <<>>,
   transit_platform_info |-> NoPlatformInfo,
   cost |-> [elapsed_cost |-> Unset, transition_cost |-> Unset], recosts |-> <<>>]
EmptyLeg ==
  [location |-> <<>>, node |-> <<>>, admin |-> <<>>,
   shape_attributes |-> [has |-> FALSE, time |-> <<>>, length |-> <<>>, speed |-> <<>>],
   shape |-> <<>>, has_bbox |-> FALSE]

\* the access bits tested for a travel mode (lines 568-575)
AccessMask(mode) ==
  IF mode = "kBicycle" THEN kBicycleAccess
  ELSE IF mode = "kDrive" THEN kAutoAccess
  ELSE IF mode \in {"kPedestrian", "kPublicTransit"} THEN kPedestrianAccess
  ELSE {}
\* the two ways round of the traversability of a reversed edge taken the
\* same way as those of a forward edge
Traversability_NoFlip(mode, directededge) ==
  LET fwd == (directededge.forwardaccess \cap AccessMask(mode)) # {}
      rev == (directededge.reverseaccess \cap AccessMask(mode)) # {}
  IN IF fwd /\ rev THEN "kBoth"
     ELSE IF fwd /\ ~rev THEN "kForward"
     ELSE IF ~fwd /\ rev THEN "kBackward"
     ELSE "kNone"
\* lines 577-608: the traversability of an edge for a travel mode
Traversability(mode, directededge) ==
  LET fwd == (directededge.forwardaccess \cap AccessMask(mode)) # {}
      rev == (directededge.reverseaccess \cap AccessMask(mode)) # {}
  IN IF directededge.forward
     THEN (IF fwd /\ rev THEN "kBoth"
           ELSE IF fwd /\ ~rev THEN "kForward"
           ELSE IF ~fwd /\ rev THEN "kBackward"
           ELSE "kNone")
     ELSE (IF fwd /\ rev THEN "kBoth"
           ELSE IF ~fwd /\ rev THEN "kForward"
           ELSE IF fwd /\ ~rev THEN "kBackward"
           ELSE "kNone")

\* AddTripEdge, as far as the leg's edge record is concerned.  step is the
\* position in the path of the step the record is built from.  threw tells
\* that costing->EdgeCost (edge speed requested on a transit line) or
\* std::stoul (lane connectivity tokens) threw.
AddTripEdge(ctl, edge_id, trip_id, block_id, directededge, step, mode, restrictions_idx) ==
  [threw |-> (attributes_at(ctl, "kEdgeSpeed") /\ directededge.transit_line)
               \/ (directededge.laneconnectivity /\ directededge.access_restriction
                     /\ ~directededge.lane_tokens_ok),
   edge |-> [NoEdge EXCEPT
               !.step = step,
               !.sign = IF directededge.sign THEN "set" ELSE @,
               !.turn_lanes = IF directededge.turnlanes THEN "set" ELSE @,
               !.traversability = IF attributes_at(ctl, "kEdgeTraversability")
                                  THEN Traversability(mode, directededge) ELSE @,
               !.lane_connectivity = IF directededge.laneconnectivity THEN "set" ELSE @,
               !.restriction = IF directededge.access_restriction /\ restrictions_idx >= 0
                               THEN "set" ELSE @,
               !.has_time_restrictions = IF restrictions_idx >= 0 THEN "true" ELSE "false",
               !.block_id =
                  IF trip_id # 0 /\ directededge.use \in {"kRail", "kBus"}
                       /\ attributes_at(ctl, "kEdgeTransitRouteInfoBlockId")
                  THEN block_id ELSE @,
               !.trip_id =
                  IF trip_id # 0 /\ directededge.use \in {"kRail", "kBus"}
                       /\ attributes_at(ctl, "kEdgeTransitRouteInfoTripId")
                  THEN trip_id ELSE @,
               !.id = IF attributes_at(ctl, "kEdgeId") THEN edge_id ELSE Unset]]

\* the end shape index taken as the size of the shape
SetShapeIndexes_EndIsSize(ctl, trip_edge, begin_index, shape) ==
  [trip_edge EXCEPT
     !.begin_shape_index = IF attributes_at(ctl, "kEdgeBeginShapeIndex") THEN begin_index ELSE @,
     !.end_shape_index = IF attributes_at(ctl, "kEdgeEndShapeIndex") THEN Len(shape) ELSE @]

\* the begin and end shape index of an edge record, each if requested
SetShapeIndexes(ctl, trip_edge, begin_index, shape) ==
  [trip_edge EXCEPT
     !.begin_shape_index = IF attributes_at(ctl, "kEdgeBeginShapeIndex") THEN begin_index ELSE @,
     !.end_shape_index = IF attributes_at(ctl, "kEdgeEndShapeIndex") THEN Len(shape) - 1 ELSE @]

\* the travelled length taken as it comes
EdgeLength_NoClamp(length_m, pct_span) == (length_m * pct_span) \div kPctScale

\* length of the travelled part of an edge in metres (the source keeps km):
\* at least the clamp
EdgeLength(length_m, pct_span) ==
  Max((length_m * pct_span) \div kPctScale, kMinLengthM)

\* ------------------------------------------------------------------------
\* Recosting
\* ------------------------------------------------------------------------
NullRecost == [elapsed_cost |-> Unset, transition_cost |-> Unset]
\* recosts(k).elapsed_cost().seconds(): an absent field reads as 0
elapsed_seconds(recost) == IF recost.elapsed_cost = Unset THEN 0 ELSE recost.elapsed_cost
\* the label recost_forward makes for the k-th edge under recosting r
LabelOf(r, k) == [transition_cost |-> k + r, cost |-> 10 * k + r]

\* edge_cb: the id handed to recost_forward for the node at in_itr (from 1)
edge_cb(node, in_itr) ==
  IF node[in_itr].has_edge
  THEN (IF node[in_itr].edge.id = Unset THEN 0 ELSE node[in_itr].edge.id)
  ELSE kInvalidGraphId

\* the number of edges recost_forward obtains from edge_cb before the
\* invalid id ends the leg
RECURSIVE EdgesOffered(_, _)
EdgesOffered(node, in_itr) ==
  IF in_itr > Len(node) \/ edge_cb(node, in_itr) = kInvalidGraphId THEN 0
  ELSE 1 + EdgesOffered(node, in_itr + 1)

\* label_cb: out_itr (from 1) designates the node of the label's edge
label_cb(node, out_itr, label) ==
  [node EXCEPT
     ![out_itr].recosts[Len(node[out_itr].recosts)].transition_cost = label.transition_cost,
     ![out_itr + 1].recosts = Append(@, [elapsed_cost |-> label.cost,
                                         transition_cost |-> Unset])]

\* the nodes after recost_forward has delivered the labels 1..labels
RECURSIVE DeliverLabels(_, _, _, _)
DeliverLabels(node, r, k, labels) ==
  IF k > labels THEN node
  ELSE DeliverLabels(label_cb(node, k, LabelOf(r, k)), r, k + 1, labels)

\* the catch block without RemoveLast: a labelled node keeps its entry
PadWithNulls_NoRemove(node) ==
  [i \in 1..Len(node) |-> [node[i] EXCEPT !.recosts = Append(@, NullRecost)]]
\* the catch block padding only the nodes that lack an entry
PadWithNulls_KeepLabelled(node) ==
  LET should_have == Len(node[1].recosts) IN
  [i \in 1..Len(node) |->
     [node[i] EXCEPT !.recosts =
        IF Len(node[i].recosts) = should_have THEN @ ELSE Append(@, NullRecost)]]

\* the catch block: every node ends with a null entry for this recosting
PadWithNulls(node) ==
  LET should_have == Len(node[1].recosts) IN
  [i \in 1..Len(node) |->
     [node[i] EXCEPT !.recosts =
        Append(IF Len(node[i].recosts) = should_have
               THEN SubSeq(node[i].recosts, 1, should_have - 1)
               ELSE node[i].recosts,
               NullRecost)]]

\* one turn of the loop over options.recostings() once the costing exists:
\* recost_forward delivers `labels` labels and then returns (threw = FALSE)
\* or throws
RecostOnce(node, r, labels, threw) ==
  LET seeded == [node EXCEPT ![1].recosts =
                   Append(@, [elapsed_cost |-> 0, transition_cost |-> Unset])]
      labelled == DeliverLabels(seeded, r, 1, labels)
      out_itr == labels + 1
  IN IF threw THEN PadWithNulls(labelled)
     ELSE [labelled EXCEPT
             ![out_itr].recosts[Len(labelled[out_itr].recosts)].transition_cost = 0]

\* ------------------------------------------------------------------------
\* State
\* ------------------------------------------------------------------------
VARIABLES
  options,             \* [recostings]: the number of requested recostings
  controller,          \* the set of enabled attributes
  graphreader,         \* [directededge, end_tile_missing, start_admin]
  mode_costing,        \* [flow_mask_current]
  path,                \* path_begin .. path_end
  origin, dest,        \* the caller's Location arguments
  through_loc,
  trip_path,           \* the output leg
  interrupt_callback,  \* "none" (null), "returns" or "throws"
  edge_trimming,       \* edge index (from 0) -> <<begin info, end info>>
  pc,                  \* position of the Build call
  local,               \* the locals of Build
  interrupt_calls,     \* number of invocations of the callback
  initial,             \* the mutable arguments as they were at the call
  builds,              \* concurrent Build calls on one edge_trimming map: their positions
  requested            \* the GetAdminIndex calls made on their own: descriptor and result

vars ==
  <<options, controller, graphreader, mode_costing, path, origin, dest, through_loc,
    trip_path, interrupt_callback, edge_trimming, pc, local, interrupt_calls, initial,
    builds, requested>>
inputs ==
  <<options, controller, graphreader, mode_costing, path, origin, dest, through_loc,
    interrupt_callback, initial, builds, requested>>

\* ------------------------------------------------------------------------
\* Inputs
\* ------------------------------------------------------------------------
PathEdge(graph_id, percent_along, ll) ==
  [graph_id |-> graph_id, percent_along |-> percent_along, ll |-> ll,
   side_of_street |-> "kNone"]
Location(path_edges) ==
  [path_edges |-> path_edges, projected_ll |-> Unset, side_of_street |-> "unset",
   date_time |-> Unset]
\* an edge id that is on no path
kOtherEdgeId == MaxPath + 1

\* PathInfo::restriction_index of a step without a restriction
kInvalidRestriction == 0 - 1
PathInfo(i) ==
  [edgeid |-> i, trip_id |-> 0, mode |-> "kDrive", restriction_index |-> kInvalidRestriction,
   elapsed_cost |-> [secs |-> 10 * i],
   transition_cost |-> [secs |-> IF i = 1 THEN 0 ELSE 2]]

UntrimmedBegin(i) == [trim |-> FALSE, distance_along |-> 0, vertex |-> BaseOf(i + 1)]
TrimmedBegin(i) == [trim |-> TRUE, distance_along |-> 77, vertex |-> BaseOf(i + 1) + 77]
UntrimmedEnd(i) == [trim |-> FALSE, distance_along |-> kPctScale, vertex |-> BaseOf(i + 2)]
TrimmedEnd(i) == [trim |-> TRUE, distance_along |-> 179, vertex |-> BaseOf(i + 1) + 179]
NoTrimming == [i \in {} |-> <<>>]
\* the edge_trimming maps offered for a path of n steps: none, one entry, or
\* the two entries around a gap between two consecutive edges
Trimmings(n) ==
  {NoTrimming}
  \cup UNION {{[i \in {k} |-> <<b, e>>] :
                  b \in {UntrimmedBegin(k), TrimmedBegin(k)},
                  e \in {UntrimmedEnd(k), TrimmedEnd(k)}} :
              k \in 0..(n - 1)}
  \cup {[i \in {k - 1, k} |-> IF i = k THEN <<TrimmedBegin(k), UntrimmedEnd(k)>>
                              ELSE <<UntrimmedBegin(k - 1), TrimmedEnd(k - 1)>>] :
          k \in 1..(n - 1)}

PathsOver(kinds, lo, hi) == UNION {[1..n -> kinds] : n \in lo..hi}

Profiles ==
  {AllAttributes, {}, AllAttributes \ AdminAttributes,
   AllAttributes \ ShapeAttributesAttributes, {"kNodeaAdminIndex"}}
  \cup {AllAttributes \ {a} : a \in AllAttributes}

BaseScenario(edges) ==
  [edges |-> edges, controller |-> AllAttributes, end_tile_missing |-> FALSE,
   start_admin |-> "US", flow |-> TRUE, start_pct |-> 51, end_pct |-> 204,
   decoy |-> FALSE, trimming |-> NoTrimming, interrupt |-> "none", recostings |-> 0,
   throughs |-> <<>>, origin_miss |-> FALSE, dest_miss |-> FALSE,
   mode |-> "kDrive", restriction_index |-> kInvalidRestriction,
   nodes |-> [i \in 1..Len(edges) |-> PlainNode],
   trip_ids |-> [i \in 1..Len(edges) |-> 0], date |-> Unset, date_created |-> 3]

\* geometry: every two-step road path, and the longer paths over a reversed
\* and a traffic-cut edge, with every trimming map and pair of snap fractions
ShapeScenarios ==
  UNION {{[BaseScenario(e) EXCEPT !.trimming = t, !.start_pct = a, !.end_pct = b] :
            t \in Trimmings(Len(e)), a \in {0, 51}, b \in {204, 255}} :
         e \in PathsOver(RoadEdges, 2, 2)
               \cup PathsOver({EdgeBackward, EdgeOneBreak}, 3, MaxPath)}
\* single-step legs: every order of the two snap fractions
TrivialScenarios ==
  {[BaseScenario(e) EXCEPT !.start_pct = a, !.end_pct = b, !.flow = f, !.trimming = t] :
     e \in PathsOver(RoadEdges, 1, 1), a \in {0, 51, 204}, b \in {51, 204, 255},
     f \in BOOLEAN, t \in Trimmings(1)}
\* controller profiles, with and without the tile of the last node
ControllerScenarios ==
  {[BaseScenario(e) EXCEPT !.controller = c, !.end_tile_missing = m, !.start_admin = a,
                           !.flow = f, !.decoy = TRUE] :
     e \in {<<EdgeOneBreak>>, <<EdgePlain, EdgeBackward>>, <<EdgeBackward, EdgeOneBreak>>},
     c \in Profiles, m \in BOOLEAN, a \in Admins, f \in BOOLEAN}
\* collaborators that throw
ThrowScenarios ==
  {[BaseScenario(e) EXCEPT !.controller = c] :
     e \in {p \in PathsOver(RoadEdges \cup ThrowingEdges, 1, 2) :
              \E i \in 1..Len(p) : p[i] \in ThrowingEdges},
     c \in {AllAttributes, AllAttributes \ {"kEdgeSpeed"}}}
\* recostings
RecostScenarios ==
  {[BaseScenario(e) EXCEPT !.controller = c, !.recostings = r] :
     e \in PathsOver({EdgePlain}, 1, MaxPath),
     c \in {AllAttributes, AllAttributes \ {"kEdgeId"}},
     r \in 1..MaxRecost}
\* an interrupt callback
InterruptScenarios ==
  UNION {{[BaseScenario(e) EXCEPT !.interrupt = i, !.trimming = t, !.recostings = r] :
            i \in {"returns", "throws"}, t \in Trimmings(Len(e)), r \in 0..1} :
         e \in {<<EdgePlain>>, <<EdgeBackward, EdgeOneBreak>>}}
\* through locations: one candidate on the path, several candidates of which
\* a later one comes first on the path, a candidate off the path, a candidate
\* off the path before one on it, two candidates on the same edge
ThroughLocations ==
  {Location(<<PathEdge(2, 128, BaseOf(2) + 128)>>),
   Location(<<PathEdge(MaxPath, 26, BaseOf(MaxPath) + 26), PathEdge(2, 128, BaseOf(2) + 128)>>),
   Location(<<PathEdge(kOtherEdgeId, 128, 999)>>),
   Location(<<PathEdge(kOtherEdgeId, 128, 999), PathEdge(1, 230, 230)>>),
   Location(<<PathEdge(2, 26, BaseOf(2) + 26), PathEdge(2, 128, BaseOf(2) + 128)>>)}
\* one or two through locations on the longest plain path
ThroughScenarios ==
  {[BaseScenario([i \in 1..MaxPath |-> EdgePlain]) EXCEPT !.throughs = t, !.decoy = d] :
     t \in UNION {[1..n -> ThroughLocations] : n \in 1..2}, d \in BOOLEAN}
\* an origin or a destination without a candidate on its path edge
MissScenarios ==
  {[BaseScenario(e) EXCEPT !.origin_miss = o, !.dest_miss = d, !.recostings = r] :
     e \in PathsOver({EdgePlain, EdgeBackward}, 1, 2), o \in BOOLEAN, d \in BOOLEAN,
     r \in 0..1}
\* the travel modes, one of them none that AddTripEdge knows
TravelModes == {"kDrive", "kPedestrian", "kBicycle", "kPublicTransit", "kOther"}
AccessSets == {{}, kAutoAccess, kPedestrianAccess \cup kBicycleAccess, kAllAccess}
\* every direction, pair of access sets and travel mode, on one and two steps
AccessScenarios ==
  {[BaseScenario(e) EXCEPT !.mode = m] :
     e \in UNION {{<<EdgeWithAccess(f, fa, ra)>>, <<EdgeWithAccess(f, fa, ra), EdgePlain>>} :
                    f \in BOOLEAN, fa \in AccessSets, ra \in AccessSets},
     m \in TravelModes}
\* the edge features that are written whatever the controller says
FeatureScenarios ==
  {[BaseScenario(e) EXCEPT !.controller = c, !.restriction_index = r] :
     e \in {<<EdgePlain>>, <<EdgeDecorated>>, <<EdgePlain, EdgeDecorated>>},
     c \in {{}, AllAttributes}, r \in {kInvalidRestriction, 0}}
\* intersections: a two-step path whose second edge is or is not a shortcut,
\* with every kind of edge at its begin node, on its level and across a
\* transition
kShortcutMask == {1}
CrossingEdges ==
  <<EdgeIndexed(0, 0), EdgeIndexed(1, 0), EdgeIndexed(2, 0),
    EdgeShortcut(3, 0, {2}), EdgeSuperseded(4, kShortcutMask), EdgeIndexed(5, 0)>>
IntersectionScenarios ==
  {[BaseScenario(<<EdgeIndexed(0, 1), e>>) EXCEPT
      !.controller = c,
      !.nodes = <<NodeWith(<<EdgeIndexed(0, 1), EdgeIndexed(1, 0)>>, t1),
                  NodeWith(CrossingEdges, t2)>>] :
     e \in {EdgeIndexed(2, 0), EdgeShortcut(2, 0, kShortcutMask)},
     c \in {AllAttributes, {}},
     t1 \in {<<>>, <<Transition(TRUE, <<EdgeIndexed(0, 1), EdgeIndexed(2, 0)>>)>>},
     t2 \in {<<>>, <<Transition(FALSE, CrossingEdges), Transition(TRUE, CrossingEdges)>>}}
\* transit: every path of MaxPath steps over a rail edge with a departure, a
\* bus edge whose departure's schedule has run out, a bus edge whose trip has
\* no departure in the tile, a bus edge and a platform connection without a
\* trip and a road edge; with and without a date at the origin, in a tile
\* made before and after it.  edge.speed is off: the costing throws on it.
TransitSteps ==
  {<<EdgeRail(Departure(100, 50, 9, 60)), 7, TransitNode>>,
   <<EdgeBus(Departure(200, 30, 4, 1)), 8, TransitNode>>,
   <<EdgeBus(NoDeparture), 5, TransitNode>>,
   <<EdgeBus(NoDeparture), 0, TransitNode>>,
   <<EdgePlatformConnection, 0, TransitNode>>,
   <<EdgePlain, 0, PlainNode>>}
TransitDates == {<<Unset, 3>>, <<5, 3>>, <<5, 7>>}
TransitControllers ==
  {AllAttributes \ {"kEdgeSpeed"},
   AllAttributes \ {"kEdgeSpeed", "kNodeTransitPlatformInfoType"},
   AllAttributes \ {"kEdgeSpeed", "kNodeElapsedTime"}}
TransitScenarios ==
  {[BaseScenario([i \in 1..MaxPath |-> st[i][1]]) EXCEPT
      !.controller = c, !.mode = "kPublicTransit",
      !.trip_ids = [i \in 1..MaxPath |-> st[i][2]],
      !.nodes = [i \in 1..MaxPath |-> st[i][3]],
      !.date = d[1], !.date_created = d[2]] :
     st \in [1..MaxPath -> TransitSteps], d \in TransitDates, c \in TransitControllers}
Scenarios ==
  ShapeScenarios \cup TrivialScenarios \cup ControllerScenarios \cup ThrowScenarios
    \cup RecostScenarios \cup InterruptScenarios \cup ThroughScenarios \cup MissScenarios
    \cup AccessScenarios \cup FeatureScenarios \cup IntersectionScenarios
    \cup TransitScenarios

OriginOf(sc) ==
  [Location((IF sc.decoy \/ sc.origin_miss THEN <<PathEdge(kOtherEdgeId, 128, 999)>> ELSE <<>>)
            \o (IF sc.origin_miss THEN <<>> ELSE <<PathEdge(1, sc.start_pct, sc.start_pct)>>))
   EXCEPT !.date_time = sc.date]
DestOf(sc) ==
  LET n == Len(sc.edges) IN
  Location((IF sc.decoy \/ sc.dest_miss THEN <<PathEdge(kOtherEdgeId, 128, 999)>> ELSE <<>>)
           \o (IF sc.dest_miss THEN <<>>
               ELSE <<PathEdge(n, sc.end_pct, BaseOf(n) + sc.end_pct)>>))

InitLocal ==
  [startnode |-> Unset, start_pct |-> Unset, end_pct |-> Unset,
   start_vrt |-> Unset, end_vrt |-> Unset,
   admin_info_map |-> {}, admin_info_list |-> <<>>,
   is_first_edge |-> TRUE, edge_index |-> 0, trip_shape |-> <<>>,
   recosting |-> 0, recost_log |-> <<>>, thrown |-> "none",
   read_path_end |-> FALSE, start_pct_assigned |-> FALSE, end_pct_assigned |-> FALSE,
   uninit_read |-> FALSE,
   time_info |-> 0, edge_times |-> <<>>,
   cut_calls |-> <<>>, prior_opp_local_index |-> kNoLocalIndex,
   block_id |-> 0, arrival_time |-> kEmptyTime, assumed_schedule |-> FALSE,
   prev_transit_node_type |-> "kStop", null_departure_read |-> FALSE,
   trivial |-> [taken |-> FALSE, forward |-> FALSE, start_pct |-> Unset, end_pct |-> Unset,
                reversed |-> FALSE, opposing |-> FALSE, edge_forward |-> FALSE,
                shape |-> <<>>]]

Init ==
  \E sc \in Scenarios :
    /\ (sc.end_tile_missing => Last(sc.edges).leaves_tile)
    /\ options = [recostings |-> sc.recostings]
    /\ controller = sc.controller
    /\ graphreader = [directededge |-> sc.edges, end_tile_missing |-> sc.end_tile_missing,
                      start_admin |-> sc.start_admin, nodeinfo |-> sc.nodes,
                      date_created |-> sc.date_created]
    /\ mode_costing = [flow_mask_current |-> sc.flow]
    /\ path = [i \in 1..Len(sc.edges) |->
                 [PathInfo(i) EXCEPT !.mode = sc.mode, !.trip_id = sc.trip_ids[i],
                                     !.restriction_index = sc.restriction_index]]
    /\ origin = OriginOf(sc)
    /\ dest = DestOf(sc)
    /\ through_loc = sc.throughs
    /\ trip_path = EmptyLeg
    /\ interrupt_callback = sc.interrupt
    /\ edge_trimming = sc.trimming
    /\ pc = "start"
    /\ local = InitLocal
    /\ interrupt_calls = 0
    /\ initial = [origin |-> OriginOf(sc), dest |-> DestOf(sc),
                  edge_trimming |-> sc.trimming, trip_path |-> EmptyLeg]
    /\ builds = <<>>
    /\ requested = <<>>

\* ------------------------------------------------------------------------
\* Undefined behaviour
\* ------------------------------------------------------------------------
\* A read through a null tile pointer either faults or yields whatever lies
\* at the address; a float read before any assignment holds any value.
Faults == {"segv", "garbage"}
GarbageAdmins == Admins \cup {"??"}
GarbagePcts == {0, 128}
\* what a read of *path_end may find as an edge id
GarbageEdgeIds == {kOtherEdgeId, kOtherEdgeId + 1}
\* a default-constructed PointLL
kInvalidLL == 0 - 4

\* ------------------------------------------------------------------------
\* Build
\* ------------------------------------------------------------------------
\* the interrupt tested only after the locations were copied into the leg
TestInterrupt_AfterCopy ==
  /\ pc = "start"
  /\ interrupt_calls' =
       IF interrupt_callback = "none" THEN interrupt_calls ELSE interrupt_calls + 1
  /\ pc' = IF interrupt_callback = "throws" THEN "interrupted" ELSE "locations"
  /\ local' = IF interrupt_callback = "throws"
              THEN [local EXCEPT !.thrown = "interrupt"] ELSE local
  /\ trip_path' = [trip_path EXCEPT !.location = <<origin, dest>>]
  /\ UNCHANGED <<inputs, edge_trimming>>

\* lines 1228-1231: test the interrupt prior to building the trip path
TestInterrupt ==
  /\ pc = "start"
  /\ interrupt_calls' =
       IF interrupt_callback = "none" THEN interrupt_calls ELSE interrupt_calls + 1
  /\ pc' = IF interrupt_callback = "throws" THEN "interrupted" ELSE "locations"
  /\ local' = IF interrupt_callback = "throws"
              THEN [local EXCEPT !.thrown = "interrupt"] ELSE local
  /\ UNCHANGED <<inputs, trip_path, edge_trimming>>

\* the candidate of a location that lies on the given edge: its fields, or
\* what the uninitialised locals hold when there is none
Snapped(location, edge_id, uninit) ==
  LET pos == FindPathEdge(location.path_edges, edge_id, 1) IN
  IF pos = 0
  THEN [assigned |-> FALSE, pct |-> uninit, vrt |-> kInvalidLL, sos |-> "kNone"]
  ELSE [assigned |-> TRUE,
        pct |-> location.path_edges[pos].percent_along,
        vrt |-> location.path_edges[pos].ll,
        sos |-> location.path_edges[pos].side_of_street]

\* projected_ll and side_of_street of the leg's copy of a location
Project(location, snapped) ==
  [location EXCEPT !.projected_ll = snapped.vrt,
                   !.side_of_street = IF snapped.sos # "kNone" THEN snapped.sos ELSE @]

\* the positions `pe` takes in CopyLocations, one per through location:
\* Len(pth) + 1 stands for path_end
RECURSIVE FoundPositions(_, _, _, _)
FoundPositions(throughs, pth, i, pe) ==
  IF i > Len(throughs) THEN <<>>
  ELSE LET ids == {throughs[i].path_edges[j].graph_id : j \in 1..Len(throughs[i].path_edges)}
           found == FindInPath(pth, ids, pe)
       IN <<found>> \o FoundPositions(throughs, pth, i + 1, found)
\* CopyLocations evaluates pe->edgeid with pe == path_end
ReadsPathEnd(throughs, pth) ==
  \E i \in 1..Len(throughs) : FoundPositions(throughs, pth, 1, 1)[i] > Len(pth)

\* lines 1233-1314: locations, start node, partial edges, shape attributes
Setup ==
  /\ pc = "locations"
  /\ \E beyond \in GarbageEdgeIds, over \in Faults,
        u1 \in GarbagePcts, u2 \in GarbagePcts, fault \in Faults :
       LET copied == CopyLocations(trip_path.location, origin, through_loc, dest, path, beyond)
           start == Snapped(origin, path[1].edgeid, u1)
           end == Snapped(dest, Last(path).edgeid, u2)
           located == [i \in 1..Len(copied) |->
                         IF i = 1 THEN Project(copied[i], start)
                         ELSE IF i = Len(copied) THEN Project(copied[i], end)
                         ELSE copied[i]]
       IN IF ReadsPathEnd(through_loc, path) /\ over = "segv"
          THEN \* pe->edgeid past the last path step
               /\ pc' = "crashed"
               /\ trip_path' = trip_path
               /\ local' = [local EXCEPT !.read_path_end = TRUE]
          ELSE IF ~HasTile(graphreader, 1) /\ fault = "segv"
          THEN \* first_tile->node(...) with first_tile == nullptr
               /\ pc' = "crashed"
               /\ trip_path' = [trip_path EXCEPT !.location = copied]
               /\ local' = [local EXCEPT !.read_path_end = ReadsPathEnd(through_loc, path)]
          ELSE /\ pc' = IF Len(path) = 1 THEN "trivial" ELSE "loop"
               /\ trip_path' =
                    [trip_path EXCEPT
                       !.location = located,
                       !.shape_attributes.has =
                          category_attribute_enabled(controller, ShapeAttributesAttributes)]
               /\ local' = [local EXCEPT
                              !.startnode = IF HasTile(graphreader, 1) THEN 0 ELSE kInvalidGraphId,
                              !.start_pct = start.pct, !.start_vrt = start.vrt,
                              !.end_pct = end.pct, !.end_vrt = end.vrt,
                              !.read_path_end = ReadsPathEnd(through_loc, path),
                              !.start_pct_assigned = start.assigned,
                              !.end_pct_assigned = end.assigned]
  /\ UNCHANGED <<inputs, edge_trimming, interrupt_calls>>

\* start_pct (on the first edge) or end_pct (on the last edge) is read though
\* no candidate of the location assigned it (lines 1324, 1330, 1704, 1705)
ReadsUninit(is_first_edge, is_last_edge) ==
  \/ is_first_edge /\ ~local.start_pct_assigned
  \/ is_last_edge /\ ~local.end_pct_assigned

\* the geometry of a path edge in its direction of travel: the stored shape,
\* reversed if the directed edge is not forward (lines 1710-1713, 1756-1759,
\* 1773-1777)
OrientedShape(directededge, step) ==
  Shift(IF ~directededge.forward THEN Reverse(StoredShape(directededge))
        ELSE StoredShape(directededge), BaseOf(step))

\* one call of SetShapeAttributes as the caller made it: the edge, the flag
\* and the number of vertices the call put into the shape
CutCall(directededge, mode, cut_for_traffic, shape, shape_begin, src_pct, tgt_pct, shape_attributes, cut) ==
  [transit_line |-> directededge.transit_line, mode |-> mode,
   cut_for_traffic |-> cut_for_traffic, inserted |-> Len(cut.shape) - Len(shape),
   has |-> shape_attributes.has, src_pct |-> src_pct, tgt_pct |-> tgt_pct,
   shape_in |-> SubSeq(shape, shape_begin + 1, Len(shape)),
   shape_out |-> SubSeq(cut.shape, shape_begin + 1, Len(cut.shape)),
   speeds |-> [k \in 1..Len(cut.speeds) |-> cut.speeds[k][1]],
   speed_itr |-> cut.speed_itr, past_end |-> cut.past_end,
   times |-> Len(cut.shape_attributes.time) - Len(shape_attributes.time),
   lengths |-> Len(cut.shape_attributes.length) - Len(shape_attributes.length),
   speed_entries |-> Len(cut.shape_attributes.speed) - Len(shape_attributes.speed)]

\* metres along an edge of a fraction
Metres(pct, length_m) == (pct * length_m) \div kPctScale

\* lines 1316-1421: the path is a single edge
TrivialLeg ==
  /\ pc = "trivial"
  /\ LET path_edge == graphreader.directededge[1]
         stored == Shift(StoredShape(path_edge), BaseOf(1))
         reversed == path_edge.forward # (local.start_pct < local.end_pct)
         shape0 == IF reversed THEN Reverse(stored) ELSE stored
         opposing == local.start_pct > local.end_pct
         start_pct == IF opposing THEN kPctScale - local.start_pct ELSE local.start_pct
         end_pct == IF opposing THEN kPctScale - local.end_pct ELSE local.end_pct
         edge == IF opposing THEN OpposingEdge(path_edge) ELSE path_edge
         endnode == IF opposing THEN 0 ELSE 1
         decided == [taken |-> TRUE, forward |-> path_edge.forward,
                     start_pct |-> local.start_pct, end_pct |-> local.end_pct,
                     reversed |-> reversed, opposing |-> opposing,
                     edge_forward |-> edge.forward, shape |-> shape0]
         shape1 == trim_shape(Metres(start_pct, kEdgeLengthM), local.start_vrt,
                              Metres(end_pct, kEdgeLengthM), local.end_vrt, shape0)
         added == AddTripEdge(controller, path[1].edgeid, path[1].trip_id, 0, edge, 1,
                              path[1].mode,
                              path[1].restriction_index)
         with_length ==
           [added.edge EXCEPT !.length =
              IF attributes_at(controller, "kEdgeLength")
              THEN EdgeLength(kEdgeLengthM, Abs(end_pct - start_pct))
              ELSE @]
         edge_seconds == path[1].elapsed_cost.secs - path[1].transition_cost.secs
         cut == SetShapeAttributes(controller, edge.traffic, kEdgeLengthM, shape1, 0,
                                   trip_path.shape_attributes, start_pct, end_pct,
                                   edge_seconds, mode_costing.flow_mask_current)
         called == CutCall(edge, path[1].mode, mode_costing.flow_mask_current, shape1, 0,
                           start_pct, end_pct, trip_path.shape_attributes, cut)
         trip_edge == SetShapeIndexes(controller, with_length, 0, cut.shape)
         first == [NewNode EXCEPT !.has_edge = TRUE, !.edge = trip_edge]
         admin == GetAdminIndex(NodeAdmin(graphreader, endnode),
                                local.admin_info_map, local.admin_info_list)
         end_tile_null == ~HasTile(graphreader, endnode)
         wants_admin == attributes_at(controller, "kNodeaAdminIndex")
         second ==
           [NewNode EXCEPT
              !.cost.elapsed_cost = IF attributes_at(controller, "kNodeElapsedTime")
                                    THEN path[1].elapsed_cost.secs ELSE @,
              !.admin_index = IF ~wants_admin THEN @
                              ELSE IF end_tile_null THEN 0 ELSE admin.admin_index]
         admin_info_list == IF wants_admin /\ ~end_tile_null
                            THEN admin.list ELSE local.admin_info_list
         admin_info_map == IF wants_admin /\ ~end_tile_null
                           THEN admin.map ELSE local.admin_info_map
     IN IF added.threw
        THEN /\ pc' = "threw"
             /\ trip_path' = [trip_path EXCEPT
                                !.node = Append(@, [NewNode EXCEPT !.has_edge = TRUE,
                                                                   !.edge = added.edge])]
             /\ local' = [local EXCEPT
                            !.thrown = IF path_edge.lane_tokens_ok THEN "EdgeCost" ELSE "stoul",
                            !.start_pct = start_pct, !.end_pct = end_pct, !.trivial = decided,
                            !.uninit_read = ReadsUninit(TRUE, TRUE)]
        ELSE IF cut.past_end
        THEN /\ pc' = "crashed"
             /\ trip_path' = [trip_path EXCEPT !.node = Append(@, [first EXCEPT !.edge = with_length]),
                                               !.shape_attributes = cut.shape_attributes]
             /\ local' = [local EXCEPT !.start_pct = start_pct, !.end_pct = end_pct, !.trivial = decided,
                                       !.cut_calls = Append(@, called),
                                       !.uninit_read = ReadsUninit(TRUE, TRUE)]
        ELSE /\ pc' = "recost"
             /\ trip_path' =
                  [trip_path EXCEPT
                     !.node = @ \o <<first, second>>,
                     !.shape_attributes = cut.shape_attributes,
                     !.has_bbox = TRUE,
                     !.shape = IF attributes_at(controller, "kShape") THEN cut.shape ELSE @,
                     !.admin = AssignAdmins(controller, @, admin_info_list)]
             /\ local' = [local EXCEPT
                            !.start_pct = start_pct, !.end_pct = end_pct, !.trivial = decided,
                            !.uninit_read = ReadsUninit(TRUE, TRUE),
                            !.cut_calls = Append(@, called),
                            !.trip_shape = cut.shape,
                            !.admin_info_map = admin_info_map,
                            !.admin_info_list = admin_info_list,
                            !.edge_index = 1]
  /\ UNCHANGED <<inputs, edge_trimming, interrupt_calls>>

\* TimeInfo::forward: the time it is called on moved on by the seconds given
\* (times are seconds after the time the leg starts at)
forward(time_info, seconds) == time_info + seconds
\* trip_path.node().rbegin()->cost().elapsed_cost().seconds(): an absent
\* field reads as 0
last_node_seconds(node) ==
  IF Len(node) = 0 \/ Last(node).cost.elapsed_cost = Unset THEN 0
  ELSE Last(node).cost.elapsed_cost

\* the begin index taken past the last point of trip_shape
BeginIndex_PastLast(is_first_edge, trip_shape) ==
  IF is_first_edge THEN 0 ELSE Len(trip_shape)

\* line 1700: where the shape of the current edge begins in trip_shape
BeginIndex(is_first_edge, trip_shape) ==
  IF is_first_edge THEN 0 ELSE Len(trip_shape) - 1

\* the partial shape filled in whatever the trim flags say
TrimmingEntry_Always(entry, is_first_edge, is_last_edge) ==
  <<IF is_first_edge
    THEN [trim |-> TRUE, distance_along |-> local.start_pct, vertex |-> local.start_vrt]
    ELSE entry[1],
    IF is_last_edge
    THEN [trim |-> TRUE, distance_along |-> local.end_pct, vertex |-> local.end_vrt]
    ELSE entry[2]>>

\* lines 1716-1731: the trimming entry of the current edge after the first
\* and the last edge had their partial shape filled in
TrimmingEntry(entry, is_first_edge, is_last_edge) ==
  <<IF is_first_edge /\ ~entry[1].trim
    THEN [trim |-> TRUE, distance_along |-> local.start_pct, vertex |-> local.start_vrt]
    ELSE entry[1],
    IF is_last_edge /\ ~entry[2].trim
    THEN [trim |-> TRUE, distance_along |-> local.end_pct, vertex |-> local.end_vrt]
    ELSE entry[2]>>

\* lines 1697-1778: the shape of path step `step` appended to trip_shape
AppendShape(directededge, step) ==
  LET is_first_edge == local.is_first_edge
      is_last_edge == (step = Len(path))
      edge_index == step - 1
      begin_index == BeginIndex(is_first_edge, local.trip_shape)
      edge_shape == OrientedShape(directededge, step)
      total == kEdgeLengthM
  IN IF edge_index \in DOMAIN edge_trimming
     THEN LET entry == TrimmingEntry(edge_trimming[edge_index], is_first_edge, is_last_edge)
              trimmed == trim_shape(Metres(entry[1].distance_along, total), entry[1].vertex,
                                    Metres(entry[2].distance_along, total), entry[2].vertex,
                                    edge_shape)
          IN [trip_shape |-> local.trip_shape
                               \o (IF entry[1].trim \/ is_first_edge
                                   THEN trimmed ELSE Tail(trimmed)),
              begin_index |-> IF entry[1].trim /\ ~is_first_edge
                              THEN begin_index + 1 ELSE begin_index,
              trim_start_pct |-> entry[1].distance_along,
              trim_end_pct |-> entry[2].distance_along,
              edge_trimming |-> [edge_trimming EXCEPT ![edge_index] = entry]]
     ELSE LET trimmed ==
                IF is_first_edge
                THEN trim_shape(Metres(local.start_pct, total), local.start_vrt,
                                total, Last(edge_shape), edge_shape)
                ELSE IF is_last_edge
                THEN trim_shape(0, Head(edge_shape), Metres(local.end_pct, total),
                                local.end_vrt, edge_shape)
                ELSE edge_shape
          IN [trip_shape |-> local.trip_shape
                               \o (IF is_first_edge /\ ~is_last_edge
                                   THEN trimmed ELSE Tail(trimmed)),
              begin_index |-> begin_index,
              trim_start_pct |-> IF is_first_edge THEN local.start_pct ELSE 0,
              trim_end_pct |-> IF is_last_edge THEN local.end_pct ELSE kPctScale,
              edge_trimming |-> edge_trimming]

kSecondsPerDay == 86400
\* DateTime::get_duration: the date and time `seconds` after the origin's,
\* empty without one
get_duration(date_time, seconds) ==
  IF date_time = Unset THEN kEmptyTime ELSE date_time * kSecondsPerDay + seconds

\* a platform connection taken for a stop
PlatformType_NoInherit(directededge, prev_transit_node_type) ==
  IF directededge.use = "kRail" THEN "kStation" ELSE "kStop"
\* lines 1530-1546: the type of a platform by the edge that leaves it
PlatformType(directededge, prev_transit_node_type) ==
  IF directededge.use = "kRail" THEN "kStation"
  ELSE IF directededge.use = "kPlatformConnection" THEN prev_transit_node_type
  ELSE "kStop"

\* lines 1521-1688: the transit platform of the node a step starts at.
\* `carried` holds prev_transit_node_type, arrival_time, block_id and
\* assumed_schedule as the steps before left them; `beyond_end_day` is what
\* the comparison with the schedule's end day gives when the departure it is
\* read through is nullptr.
TransitPlatform(ctl, nodeinfo, directededge, trip_id, date_time, date_created, time_info, carried, beyond_end_day) ==
  IF ~nodeinfo.is_transit
  THEN [info |-> NoPlatformInfo, null_read |-> FALSE,
        prev_transit_node_type |-> carried.prev_transit_node_type,
        arrival_time |-> carried.arrival_time, block_id |-> carried.block_id,
        assumed_schedule |-> carried.assumed_schedule]
  ELSE
    LET wants_type == attributes_at(ctl, "kNodeTransitPlatformInfoType")
        prev_transit_node_type == PlatformType(directededge, carried.prev_transit_node_type)
        type == IF wants_type THEN prev_transit_node_type ELSE "unset"
        arrival_date_time ==
          IF attributes_at(ctl, "kNodeTransitPlatformInfoArrivalDateTime")
               /\ carried.arrival_time # kEmptyTime
          THEN carried.arrival_time ELSE Unset
        transit_departure == directededge.departure
        second_of_day == time_info % kSecondsPerDay
        wants_assumed == attributes_at(ctl, "kNodeTransitPlatformInfoAssumedSchedule")
        \* transit_departure->schedule_index() through nullptr
        null_read == trip_id # 0 /\ date_time # Unset /\ ~(date_created > date_time)
                       /\ ~transit_departure.found
        assumed ==
          IF trip_id = 0 THEN FALSE
          ELSE IF date_time = Unset THEN FALSE
          ELSE IF date_created > date_time THEN TRUE
          ELSE IF ~transit_departure.found THEN beyond_end_day
          ELSE date_time - date_created > transit_departure.end_day
    IN [info |->
          [has |-> TRUE, type |-> type, arrival_date_time |-> arrival_date_time,
           departure_date_time |->
             IF trip_id # 0 /\ transit_departure.found
                  /\ attributes_at(ctl, "kNodeTransitPlatformInfoDepartureDateTime")
             THEN get_duration(date_time, transit_departure.departure_time - second_of_day)
             ELSE Unset,
           assumed_schedule |->
             wants_assumed /\ (IF trip_id # 0 THEN assumed ELSE carried.assumed_schedule)],
        null_read |-> null_read,
        prev_transit_node_type |-> prev_transit_node_type,
        arrival_time |->
          IF trip_id = 0 THEN kEmptyTime
          ELSE IF transit_departure.found
          THEN get_duration(date_time, (transit_departure.departure_time
                                          + transit_departure.elapsed_time) - second_of_day)
          ELSE carried.arrival_time,
        block_id |->
          IF trip_id = 0 THEN 0
          ELSE IF transit_departure.found THEN transit_departure.blockid
          ELSE carried.block_id,
        assumed_schedule |-> assumed]

\* the record AddTripIntersectingEdge adds for a directed edge at the node
IntersectingEdge(de, transition) ==
  [localedgeidx |-> de.localedgeidx, is_shortcut |-> de.is_shortcut,
   superseded |-> de.superseded, transition |-> transition]
\* lines 1831-1846: the edges of the node's own level that get a record
RECURSIVE LocalIntersectingEdges(_, _, _, _)
LocalIntersectingEdges(edges, idx1, directededge, prior_opp_local_index) ==
  IF idx1 > Len(edges) THEN <<>>
  ELSE LET de == edges[idx1]
           rest == LocalIntersectingEdges(edges, idx1 + 1, directededge, prior_opp_local_index)
       IN IF de.is_shortcut \/ de.localedgeidx = prior_opp_local_index
             \/ de.localedgeidx = directededge.localedgeidx
             \/ (directededge.is_shortcut /\ (directededge.shortcut \cap de.superseded) # {})
          THEN rest
          ELSE <<IntersectingEdge(de, FALSE)>> \o rest
\* lines 1859-1868: the edges of the end node of one transition that get a record
RECURSIVE TransitionIntersectingEdges(_, _, _, _)
TransitionIntersectingEdges(edges, idx2, directededge, prior_opp_local_index) ==
  IF idx2 > Len(edges) THEN <<>>
  ELSE LET de2 == edges[idx2]
           rest == TransitionIntersectingEdges(edges, idx2 + 1, directededge,
                                               prior_opp_local_index)
       IN IF de2.is_shortcut \/ de2.localedgeidx = prior_opp_local_index
             \/ de2.localedgeidx = directededge.localedgeidx
          THEN rest
          ELSE <<IntersectingEdge(de2, TRUE)>> \o rest
\* lines 1828-1871: the intersecting edges of the node a step starts at
RECURSIVE AcrossTransitions(_, _, _, _)
AcrossTransitions(transitions, i, directededge, prior_opp_local_index) ==
  IF i > Len(transitions) THEN <<>>
  ELSE (IF ~transitions[i].tile THEN <<>>
        ELSE TransitionIntersectingEdges(transitions[i].edges, 1, directededge,
                                         prior_opp_local_index))
       \o AcrossTransitions(transitions, i + 1, directededge, prior_opp_local_index)
IntersectingEdges(nodeinfo, directededge, prior_opp_local_index) ==
  LocalIntersectingEdges(nodeinfo.edges, 1, directededge, prior_opp_local_index)
    \o AcrossTransitions(nodeinfo.transitions, 1, directededge, prior_opp_local_index)

\* lines 1438-1892: one turn of the loop over the path
PathStep ==
  /\ pc = "loop"
  /\ local.edge_index < Len(path)
  /\ \E fault \in Faults, beyond_end_day \in BOOLEAN :
       LET step == local.edge_index + 1
           directededge == graphreader.directededge[step]
           startnode == local.startnode
           time_info == forward(local.time_info, last_node_seconds(trip_path.node))
           platform == TransitPlatform(controller, graphreader.nodeinfo[step], directededge,
                                       path[step].trip_id, origin.date_time,
                                       graphreader.date_created, time_info, local,
                                       beyond_end_day)
           admin == GetAdminIndex(NodeAdmin(graphreader, startnode),
                                  local.admin_info_map, local.admin_info_list)
           wants_admin == attributes_at(controller, "kNodeaAdminIndex")
           trip_node ==
             [NewNode EXCEPT
                !.cost.elapsed_cost =
                   IF ~attributes_at(controller, "kNodeElapsedTime") THEN @
                   ELSE IF step = 1 THEN 0 ELSE path[step - 1].elapsed_cost.secs,
                !.admin_index = IF wants_admin THEN admin.admin_index ELSE @,
                !.transit_platform_info = platform.info,
                !.cost.transition_cost =
                   IF attributes_at(controller, "kNodeTransitionTime")
                   THEN path[step].transition_cost.secs ELSE @]
           added == AddTripEdge(controller, path[step].edgeid, path[step].trip_id,
                                platform.block_id, directededge, step,
                                path[step].mode, path[step].restriction_index)
           appended == AppendShape(directededge, step)
           with_length ==
             [added.edge EXCEPT !.length =
                IF attributes_at(controller, "kEdgeLength")
                THEN EdgeLength(kEdgeLengthM, appended.trim_end_pct - appended.trim_start_pct)
                ELSE @]
           edge_seconds ==
             path[step].elapsed_cost.secs - path[step].transition_cost.secs
               - (IF step = 1 THEN 0 ELSE path[step - 1].elapsed_cost.secs)
           cut == SetShapeAttributes(controller, directededge.traffic, kEdgeLengthM,
                                     appended.trip_shape, appended.begin_index,
                                     trip_path.shape_attributes, appended.trim_start_pct,
                                     appended.trim_end_pct, edge_seconds,
                                     mode_costing.flow_mask_current)
           called == CutCall(directededge, path[step].mode, mode_costing.flow_mask_current,
                             appended.trip_shape, appended.begin_index,
                             appended.trim_start_pct, appended.trim_end_pct,
                             trip_path.shape_attributes, cut)
           trip_edge == SetShapeIndexes(controller, with_length, appended.begin_index, cut.shape)
           \* t2 == nullptr: the rest of the turn is skipped by `continue`
           skipped == ~directededge.transit_line /\ directededge.leaves_tile
                        /\ ~HasTile(graphreader, step)
       IN IF ~HasTile(graphreader, startnode) /\ fault = "segv"
          THEN \* start_tile->node(startnode) with start_tile == nullptr
               /\ pc' = "crashed"
               /\ UNCHANGED <<trip_path, local, edge_trimming>>
          ELSE IF platform.null_read /\ fault = "segv"
          THEN \* transit_departure->schedule_index() with transit_departure == nullptr
               /\ pc' = "crashed"
               /\ trip_path' = [trip_path EXCEPT !.node = Append(@, trip_node)]
               /\ local' = [local EXCEPT !.null_departure_read = TRUE,
                                         !.time_info = time_info]
               /\ UNCHANGED edge_trimming
          ELSE IF added.threw
          THEN /\ pc' = "threw"
               /\ trip_path' = [trip_path EXCEPT
                                  !.node = Append(@, [trip_node EXCEPT !.has_edge = TRUE,
                                                                       !.edge = added.edge])]
               /\ local' = [local EXCEPT
                              !.thrown = IF directededge.lane_tokens_ok
                                         THEN "EdgeCost" ELSE "stoul",
                              !.prev_transit_node_type = platform.prev_transit_node_type,
                              !.arrival_time = platform.arrival_time,
                              !.block_id = platform.block_id,
                              !.assumed_schedule = platform.assumed_schedule,
                              !.null_departure_read = @ \/ platform.null_read,
                              !.time_info = time_info,
                              !.edge_times = Append(@, time_info),
                              !.admin_info_map = IF wants_admin THEN admin.map ELSE @,
                              !.admin_info_list = IF wants_admin THEN admin.list ELSE @]
               /\ UNCHANGED edge_trimming
          ELSE /\ pc' = IF cut.past_end THEN "crashed" ELSE "loop"
               /\ trip_path' =
                    [trip_path EXCEPT
                       !.node = Append(@, [trip_node EXCEPT
                                             !.has_edge = TRUE, !.edge = trip_edge,
                                             !.intersecting_edge =
                                                IntersectingEdges(
                                                  graphreader.nodeinfo[step], directededge,
                                                  local.prior_opp_local_index)]),
                       !.shape_attributes = cut.shape_attributes]
               /\ local' = [local EXCEPT
                              !.admin_info_map = IF wants_admin THEN admin.map ELSE @,
                              !.admin_info_list = IF wants_admin THEN admin.list ELSE @,
                              !.trip_shape = cut.shape,
                              !.prev_transit_node_type = platform.prev_transit_node_type,
                              !.arrival_time = platform.arrival_time,
                              !.block_id = platform.block_id,
                              !.assumed_schedule = platform.assumed_schedule,
                              !.null_departure_read = @ \/ platform.null_read,
                              !.cut_calls = Append(@, called),
                              !.time_info = time_info,
                              !.edge_times = Append(@, time_info),
                              !.uninit_read = @ \/ ReadsUninit(local.is_first_edge,
                                                               step = Len(path)),
                              !.startnode = step,
                              !.is_first_edge = IF skipped THEN @ ELSE FALSE,
                              !.prior_opp_local_index =
                                 IF skipped THEN @ ELSE directededge.opp_local_idx,
                              !.edge_index = step]
               /\ edge_trimming' = appended.edge_trimming
  /\ UNCHANGED <<inputs, interrupt_calls>>

\* the end of Build without the node that follows the last edge
LastNode_NoNode ==
  /\ pc = "loop"
  /\ local.edge_index = Len(path)
  /\ pc' = "recost"
  /\ trip_path' = [trip_path EXCEPT
                     !.admin = AssignAdmins(controller, @, local.admin_info_list),
                     !.has_bbox = TRUE,
                     !.shape = IF attributes_at(controller, "kShape")
                               THEN local.trip_shape ELSE @]
  /\ UNCHANGED <<inputs, local, edge_trimming, interrupt_calls>>

\* lines 1894-1925: the last node, the admins, the bounding box and the shape
LastNode ==
  /\ pc = "loop"
  /\ local.edge_index = Len(path)
  /\ \E fault \in Faults, garbage \in GarbageAdmins :
       LET wants_admin == attributes_at(controller, "kNodeaAdminIndex")
           last_tile_null == ~HasTile(graphreader, local.startnode)
           admin == GetAdminIndex(IF last_tile_null THEN garbage
                                  ELSE NodeAdmin(graphreader, local.startnode),
                                  local.admin_info_map, local.admin_info_list)
           admin_info_list == IF wants_admin THEN admin.list ELSE local.admin_info_list
           node ==
             [NewNode EXCEPT
                !.admin_index = IF wants_admin THEN admin.admin_index ELSE @,
                !.cost.elapsed_cost = IF attributes_at(controller, "kNodeElapsedTime")
                                      THEN Last(path).elapsed_cost.secs ELSE @,
                !.cost.transition_cost = IF attributes_at(controller, "kNodeTransitionTime")
                                         THEN 0 ELSE @]
       IN IF wants_admin /\ last_tile_null /\ fault = "segv"
          THEN \* last_tile->node(startnode) with last_tile == nullptr
               /\ pc' = "crashed"
               /\ trip_path' = [trip_path EXCEPT !.node = Append(@, NewNode)]
               /\ local' = local
          ELSE /\ pc' = "recost"
               /\ trip_path' =
                    [trip_path EXCEPT
                       !.node = Append(@, node),
                       !.admin = AssignAdmins(controller, @, admin_info_list),
                       !.has_bbox = TRUE,
                       !.shape = IF attributes_at(controller, "kShape")
                                 THEN local.trip_shape ELSE @]
               /\ local' = [local EXCEPT
                              !.admin_info_map = IF wants_admin THEN admin.map ELSE @,
                              !.admin_info_list = admin_info_list]
  /\ UNCHANGED <<inputs, edge_trimming, interrupt_calls>>

\* lines 1181-1207: one requested recosting.  factory.Create may throw; so
\* may recost_forward, after any number of labels.
Recost ==
  /\ pc = "recost"
  /\ local.recosting < options.recostings
  /\ \E create_throws \in BOOLEAN, threw \in BOOLEAN,
        labels \in 0..EdgesOffered(trip_path.node, 1) :
       /\ (~threw => labels = EdgesOffered(trip_path.node, 1))
       /\ IF create_throws
          THEN /\ pc' = "threw"
               /\ local' = [local EXCEPT !.thrown = "Create"]
               /\ trip_path' = trip_path
          ELSE /\ pc' = "recost"
               /\ local' = [local EXCEPT
                              !.recosting = @ + 1,
                              !.recost_log = Append(@, [threw |-> threw, labels |-> labels])]
               /\ trip_path' = [trip_path EXCEPT
                                  !.node = RecostOnce(@, local.recosting + 1, labels, threw)]
  /\ UNCHANGED <<inputs, edge_trimming, interrupt_calls>>

\* Build returns
Return ==
  /\ pc = "recost"
  /\ local.recosting = options.recostings
  /\ pc' = "done"
  /\ UNCHANGED <<inputs, trip_path, edge_trimming, local, interrupt_calls>>

Next == TestInterrupt \/ Setup \/ TrivialLeg \/ PathStep \/ LastNode \/ Recost \/ Return

Spec == Init /\ [][Next]_vars

\* ------------------------------------------------------------------------
\* Two Build calls on different threads that share one edge_trimming map
\* ------------------------------------------------------------------------
\* Each call owns its leg, locations and path position; builds[c] is the
\* position of call c in lines 1707-1751 of its loop turn.  Nothing in the
\* code orders the accesses of one call with those of the other.
Calls == {1, 2}
\* the snap fractions and vertices of the calls' own origins and destinations
CallStartPct(c) == IF c = 1 THEN 51 ELSE 26
CallEndPct(c) == IF c = 1 THEN 204 ELSE 230
NewBuild == [edge_index |-> 0, is_first_edge |-> TRUE, at |-> "loop"]

everything_else ==
  <<options, controller, graphreader, mode_costing, path, origin, dest, through_loc,
    trip_path, interrupt_callback, pc, local, interrupt_calls, initial, requested>>

InitShared ==
  \E n \in 2..MaxPath, t \in Trimmings(MaxPath) :
    /\ DOMAIN t \subseteq 0..(n - 1)
    /\ options = [recostings |-> 0]
    /\ controller = AllAttributes
    /\ graphreader = [directededge |-> [i \in 1..n |-> EdgePlain],
                      end_tile_missing |-> FALSE, start_admin |-> "US"]
    /\ mode_costing = [flow_mask_current |-> TRUE]
    /\ path = [i \in 1..n |-> PathInfo(i)]
    /\ origin = Location(<<PathEdge(1, 51, 51)>>)
    /\ dest = Location(<<PathEdge(n, 204, BaseOf(n) + 204)>>)
    /\ through_loc = <<>>
    /\ trip_path = EmptyLeg
    /\ interrupt_callback = "none"
    /\ edge_trimming = t
    /\ pc = "shared"
    /\ local = InitLocal
    /\ interrupt_calls = 0
    /\ initial = [origin |-> origin, dest |-> dest, edge_trimming |-> t,
                  trip_path |-> EmptyLeg]
    /\ builds = [c \in Calls |-> NewBuild]
    /\ requested = <<>>

\* line 1708: is there a trimming entry for this edge; if not, lines 1753-1778
LoopTurn(c) ==
  /\ pc = "shared"
  /\ builds[c].at = "loop"
  /\ builds[c].edge_index < Len(path)
  /\ builds' = [builds EXCEPT ![c] =
                  IF builds[c].edge_index \in DOMAIN edge_trimming
                  THEN [@ EXCEPT !.at = "test_begin"]
                  ELSE [@ EXCEPT !.edge_index = @ + 1, !.is_first_edge = FALSE]]
  /\ UNCHANGED <<everything_else, edge_trimming>>
\* line 1720: is_first_edge && !edge_begin_info.trim
TestBegin(c) ==
  /\ pc = "shared"
  /\ builds[c].at = "test_begin"
  /\ builds' = [builds EXCEPT ![c].at =
                  IF builds[c].is_first_edge
                       /\ ~edge_trimming[builds[c].edge_index][1].trim
                  THEN "write_begin" ELSE "test_end"]
  /\ UNCHANGED <<everything_else, edge_trimming>>
\* lines 1721-1723
WriteBegin(c) ==
  /\ pc = "shared"
  /\ builds[c].at = "write_begin"
  /\ edge_trimming' = [edge_trimming EXCEPT ![builds[c].edge_index][1] =
                         [trim |-> TRUE, distance_along |-> CallStartPct(c),
                          vertex |-> CallStartPct(c)]]
  /\ builds' = [builds EXCEPT ![c].at = "test_end"]
  /\ UNCHANGED everything_else
\* line 1727: is_last_edge && !edge_end_info.trim
TestEnd(c) ==
  /\ pc = "shared"
  /\ builds[c].at = "test_end"
  /\ builds' = [builds EXCEPT ![c].at =
                  IF builds[c].edge_index = Len(path) - 1
                       /\ ~edge_trimming[builds[c].edge_index][2].trim
                  THEN "write_end" ELSE "use"]
  /\ UNCHANGED <<everything_else, edge_trimming>>
\* lines 1728-1730
WriteEnd(c) ==
  /\ pc = "shared"
  /\ builds[c].at = "write_end"
  /\ edge_trimming' = [edge_trimming EXCEPT ![builds[c].edge_index][2] =
                         [trim |-> TRUE, distance_along |-> CallEndPct(c),
                          vertex |-> BaseOf(Len(path)) + CallEndPct(c)]]
  /\ builds' = [builds EXCEPT ![c].at = "use"]
  /\ UNCHANGED everything_else
\* lines 1734-1751: both halves of the entry are read
UseEntry(c) ==
  /\ pc = "shared"
  /\ builds[c].at = "use"
  /\ builds' = [builds EXCEPT ![c] = [@ EXCEPT !.at = "loop", !.edge_index = @ + 1,
                                               !.is_first_edge = FALSE]]
  /\ UNCHANGED <<everything_else, edge_trimming>>

NextShared ==
  \E c \in Calls :
    LoopTurn(c) \/ TestBegin(c) \/ WriteBegin(c) \/ TestEnd(c) \/ WriteEnd(c) \/ UseEntry(c)

SpecShared == InitShared /\ [][NextShared]_vars

\* ------------------------------------------------------------------------
\* GetAdminIndex on its own: any sequence of requests from an empty map and list
\* ------------------------------------------------------------------------
AdminDescriptors == Admins \cup {"MX"}

InitAdmin ==
  /\ options = [recostings |-> 0]
  /\ controller = AllAttributes
  /\ graphreader = [directededge |-> <<EdgePlain>>, end_tile_missing |-> FALSE,
                    start_admin |-> "US", nodeinfo |-> <<PlainNode>>, date_created |-> 3]
  /\ mode_costing = [flow_mask_current |-> TRUE]
  /\ path = <<PathInfo(1)>>
  /\ origin = Location(<<PathEdge(1, 51, 51)>>)
  /\ dest = Location(<<PathEdge(1, 204, 204)>>)
  /\ through_loc = <<>>
  /\ trip_path = EmptyLeg
  /\ interrupt_callback = "none"
  /\ edge_trimming = NoTrimming
  /\ pc = "admin"
  /\ local = InitLocal
  /\ interrupt_calls = 0
  /\ initial = [origin |-> origin, dest |-> dest, edge_trimming |-> NoTrimming,
                trip_path |-> EmptyLeg]
  /\ builds = <<>>
  /\ requested = <<>>

\* one call of GetAdminIndex on the map and list of the calls before it
RequestAdmin ==
  /\ pc = "admin"
  /\ Len(requested) < MaxAdminCalls
  /\ \E admin_info \in AdminDescriptors :
       LET got == GetAdminIndex(admin_info, local.admin_info_map, local.admin_info_list)
       IN /\ local' = [local EXCEPT !.admin_info_map = got.map,
                                    !.admin_info_list = got.list]
          /\ requested' = Append(requested, [admin_info |-> admin_info,
                                             admin_index |-> got.admin_index])
  /\ UNCHANGED <<options, controller, graphreader, mode_costing, path, origin, dest,
                 through_loc, trip_path, interrupt_callback, edge_trimming, pc,
                 interrupt_calls, initial, builds>>

NextAdmin == RequestAdmin

SpecAdmin == InitAdmin /\ [][NextAdmin]_vars

\* the halves of the entry that call c is about to read, and to write
ReadsOf(c) ==
  IF builds[c].at = "test_begin" THEN {<<builds[c].edge_index, 1>>}
  ELSE IF builds[c].at = "test_end" THEN {<<builds[c].edge_index, 2>>}
  ELSE IF builds[c].at = "use" THEN {<<builds[c].edge_index, 1>>, <<builds[c].edge_index, 2>>}
  ELSE {}
WritesOf(c) ==
  IF builds[c].at = "write_begin" THEN {<<builds[c].edge_index, 1>>}
  ELSE IF builds[c].at = "write_end" THEN {<<builds[c].edge_index, 2>>}
  ELSE {}

\* ------------------------------------------------------------------------
\* Properties
\* ------------------------------------------------------------------------
Returned == pc = "done"
NumSteps == Len(path)
EdgeOf(i) == trip_path.node[i].edge
\* a discontinuity is marked at the edge with index k (from 0)
Discontinuity(k) ==
  k \in DOMAIN initial.edge_trimming /\ initial.edge_trimming[k][1].trim
\* synthetic vertices inserted by the cutter so far: points that no trimmed
\* edge shape holds
PointsOfEdges ==
  UNION {{OrientedShape(graphreader.directededge[i], i)[j] :
            j \in 1..Len(graphreader.directededge[i].shape)} : i \in 1..NumSteps}
Vertices ==
  {local.start_vrt, local.end_vrt}
  \cup UNION {{edge_trimming[k][1].vertex, edge_trimming[k][2].vertex} : k \in DOMAIN edge_trimming}
SyntheticAt(j) == local.trip_shape[j] \notin (PointsOfEdges \cup Vertices)

\* C1: a Build that returns on a path of n steps leaves n + 1 nodes, the
\* first n each with the edge record built from the path step at the same
\* position (and with its edge id when the id is emitted), the last without
\* an edge record.
C1_NodesMirrorPath ==
  Returned =>
    /\ Len(trip_path.node) = NumSteps + 1
    /\ \A i \in 1..NumSteps :
         /\ trip_path.node[i].has_edge
         /\ EdgeOf(i).step = i
         /\ (attributes_at(controller, "kEdgeId") => EdgeOf(i).id = path[i].edgeid)
    /\ ~trip_path.node[NumSteps + 1].has_edge
C1_Witness ==
  /\ Returned
  /\ NumSteps = 3
  /\ attributes_at(controller, "kEdgeId")
  /\ EdgeOf(3).id = path[3].edgeid

\* C2: consecutive edges share a shape index, end of one = begin of the next,
\* except that the begin index is one more across a marked discontinuity.
C2_ShapeIndexesContiguous ==
  \A i \in 1..(Len(trip_path.node) - 1) :
    (/\ trip_path.node[i].has_edge /\ trip_path.node[i + 1].has_edge
     /\ EdgeOf(i).end_shape_index # Unset /\ EdgeOf(i + 1).begin_shape_index # Unset)
    => EdgeOf(i + 1).begin_shape_index =
         EdgeOf(i).end_shape_index + (IF Discontinuity(i) THEN 1 ELSE 0)
C2_Witness ==
  /\ Returned
  /\ NumSteps = 3
  /\ Discontinuity(1) /\ ~Discontinuity(2)
  /\ EdgeOf(2).begin_shape_index = EdgeOf(1).end_shape_index + 1
  /\ EdgeOf(3).begin_shape_index = EdgeOf(2).end_shape_index
  /\ \E j \in 1..Len(local.trip_shape) :
       SyntheticAt(j) /\ j - 1 < EdgeOf(1).end_shape_index

\* C3: the first edge begins at shape index 0, the last edge ends at the last
\* point of the leg's polyline, and no edge ends before it begins.
C3_ShapeIndexesCover ==
  Returned =>
    /\ attributes_at(controller, "kEdgeBeginShapeIndex") => EdgeOf(1).begin_shape_index = 0
    /\ attributes_at(controller, "kEdgeEndShapeIndex")
         => EdgeOf(NumSteps).end_shape_index = Len(local.trip_shape) - 1
    /\ \A i \in 1..NumSteps :
         (EdgeOf(i).begin_shape_index # Unset /\ EdgeOf(i).end_shape_index # Unset)
         => EdgeOf(i).begin_shape_index <= EdgeOf(i).end_shape_index
C3_Witness ==
  /\ Returned
  /\ NumSteps >= 2
  /\ 0 \in DOMAIN initial.edge_trimming
  /\ (NumSteps - 1) \in DOMAIN initial.edge_trimming
  /\ EdgeOf(1).begin_shape_index = 0
  /\ EdgeOf(NumSteps).end_shape_index = Len(local.trip_shape) - 1

\* the shape-attribute vectors that are requested
EnabledVectors ==
  (IF attributes_at(controller, "kShapeAttributesTime")
   THEN {trip_path.shape_attributes.time} ELSE {})
  \cup (IF attributes_at(controller, "kShapeAttributesLength")
        THEN {trip_path.shape_attributes.length} ELSE {})
  \cup (IF attributes_at(controller, "kShapeAttributesSpeed")
        THEN {trip_path.shape_attributes.speed} ELSE {})

\* C4: after Build every enabled shape-attribute vector has one entry per
\* segment of the leg's polyline, (number of points) - 1, discontinuities
\* and synthetic vertices included.
C4_AttributesCoverShape ==
  Returned => \A v \in EnabledVectors : Len(v) = Len(local.trip_shape) - 1

\* C5: every admin_index set on a node of a produced leg is a position of the
\* leg's admin list.
C5_AdminIndexInList ==
  Returned =>
    \A i \in 1..Len(trip_path.node) :
      trip_path.node[i].admin_index # Unset
      => trip_path.node[i].admin_index < Len(trip_path.admin)

\* C6: once any number of recostings has been processed, every node holds as
\* many recosts entries as recostings were processed, and the first node's
\* entry of every recosting reads an elapsed cost of 0.
C6_RecostsEqualLength ==
  pc \in {"recost", "done"} =>
    /\ \A i \in 1..Len(trip_path.node) :
         Len(trip_path.node[i].recosts) = local.recosting
    /\ \A k \in 1..local.recosting :
         elapsed_seconds(trip_path.node[1].recosts[k]) = 0
C6_Witness ==
  /\ Returned
  /\ local.recosting = 2
  /\ NumSteps = 3
  /\ local.recost_log[1].threw /\ local.recost_log[1].labels = 2
  /\ ~local.recost_log[2].threw
  /\ \A i \in 1..Len(trip_path.node) : Len(trip_path.node[i].recosts) = 2

\* C7: a recosting that throws, after any number of labels, leaves a null
\* entry for it on every node, keeps the entries of the earlier recostings,
\* and the following recostings are still processed.
ExpectedRecost(k, i) ==
  [elapsed_cost |-> IF i = 1 THEN 0 ELSE LabelOf(k, i - 1).cost,
   transition_cost |-> IF i = Len(trip_path.node) THEN 0 ELSE LabelOf(k, i).transition_cost]
C7_ThrowPadsWithNulls ==
  /\ Returned => local.recosting = options.recostings
  /\ pc \in {"recost", "done"} =>
       \A k \in 1..local.recosting :
         \A i \in 1..Len(trip_path.node) :
           /\ Len(trip_path.node[i].recosts) >= k
           /\ trip_path.node[i].recosts[k] =
                IF local.recost_log[k].threw THEN NullRecost ELSE ExpectedRecost(k, i)
C7_Witness ==
  /\ Returned
  /\ local.recosting = 2
  /\ NumSteps = 2
  /\ ~local.recost_log[1].threw
  /\ local.recost_log[2].threw /\ local.recost_log[2].labels = 1
  /\ trip_path.node[2].recosts[2] = NullRecost
  /\ trip_path.node[2].recosts[1].elapsed_cost = LabelOf(1, 1).cost

\* C8: no exception other than the interrupt's leaves Build.
C8_NoExceptionEscapes == local.thrown \in {"none", "interrupt"}

\* C9: when the tile of the last node cannot be obtained Build still
\* completes, with one node more than edges and admin_index 0 on that node.
C9_MissingTileTolerated ==
  graphreader.end_tile_missing =>
    /\ pc # "crashed"
    /\ Returned =>
         /\ Len(trip_path.node) = NumSteps + 1
         /\ attributes_at(controller, "kNodeaAdminIndex")
              => Last(trip_path.node).admin_index = 0

\* C10: a supplied interrupt callback is invoked once, before anything else
\* is done; when it throws, the leg, the locations and the trimming map are
\* as they were at the call.
Untouched ==
  /\ trip_path = initial.trip_path
  /\ origin = initial.origin
  /\ dest = initial.dest
  /\ edge_trimming = initial.edge_trimming
C10_InterruptFirst ==
  /\ interrupt_calls <= 1
  /\ (interrupt_callback = "none" => interrupt_calls = 0)
  /\ (interrupt_callback # "none" /\ pc # "start" => interrupt_calls = 1)
  /\ (interrupt_callback # "none" /\ interrupt_calls = 0 => Untouched)
  /\ (pc = "interrupted" => Untouched /\ local.thrown = "interrupt")
C10_Witness ==
  /\ pc = "interrupted"
  /\ interrupt_calls = 1
  /\ initial.edge_trimming # NoTrimming
  /\ Untouched

\* the candidate ids of a location
CandidateIds(location) ==
  {location.path_edges[j].graph_id : j \in 1..Len(location.path_edges)}
\* the candidate list a location should be left with for the edge id: its
\* first candidate on that edge alone, or nothing
KeptFor(location, id) ==
  IF id \in CandidateIds(location)
  THEN <<location.path_edges[CHOOSE j \in 1..Len(location.path_edges) :
                               /\ location.path_edges[j].graph_id = id
                               /\ \A k \in 1..(j - 1) : location.path_edges[k].graph_id # id]>>
  ELSE <<>>
\* first path position at or after `from` whose edge is a candidate of the
\* location, 0 if there is none
FirstOnPath(location, from) ==
  LET hits == {k \in from..Len(path) : path[k].edgeid \in CandidateIds(location)}
  IN IF hits = {} THEN 0 ELSE CHOOSE k \in hits : \A h \in hits : k <= h
\* the position matched by through t, scanning from the position matched by
\* the through before it; 0 once a through found no match
RECURSIVE MatchedPosition(_)
MatchedPosition(t) ==
  IF t = 0 THEN 1
  ELSE IF MatchedPosition(t - 1) = 0 THEN 0
  ELSE FirstOnPath(through_loc[t], MatchedPosition(t - 1))
\* CopyLocations has run to its end
LocationsCopied == trip_path.location # <<>>

\* C11: the leg's locations are origin, throughs in order, destination, each
\* with at most one candidate: the origin's on the first path edge, the
\* destination's on the last, each through's on the first path edge at or
\* after the previous through's match that is among its candidates.
C11_LocationsPruned ==
  LocationsCopied =>
    /\ Len(trip_path.location) = Len(through_loc) + 2
    /\ \A i \in 1..Len(trip_path.location) : Len(trip_path.location[i].path_edges) <= 1
    /\ trip_path.location[1].path_edges = KeptFor(origin, path[1].edgeid)
    /\ Last(trip_path.location).path_edges = KeptFor(dest, Last(path).edgeid)
    /\ \A t \in 1..Len(through_loc) :
         MatchedPosition(t) # 0
         => trip_path.location[t + 1].path_edges =
              KeptFor(through_loc[t], path[MatchedPosition(t)].edgeid)
C11_Witness ==
  /\ Returned
  /\ Len(through_loc) = 2
  /\ Len(origin.path_edges) = 2
  /\ Len(through_loc[1].path_edges) = 2 /\ through_loc[1].path_edges[1].graph_id = MaxPath
  /\ MatchedPosition(1) = 2 /\ MatchedPosition(2) = 2
  /\ trip_path.location[2].path_edges = <<through_loc[1].path_edges[2]>>
  /\ trip_path.location[3].path_edges = <<through_loc[2].path_edges[1]>>
  /\ trip_path.location[1].path_edges = <<origin.path_edges[2]>>

\* the position a through is matched from when a through without a match
\* leaves the position where it was
RECURSIVE LastMatched(_)
LastMatched(t) ==
  IF t = 0 THEN 1
  ELSE IF FirstOnPath(through_loc[t], LastMatched(t - 1)) = 0 THEN LastMatched(t - 1)
  ELSE FirstOnPath(through_loc[t], LastMatched(t - 1))

\* C12: a through none of whose candidates is on the path at or after the
\* last matched position is cleared without any read outside the path, and
\* the throughs after it and the destination are matched as usual.
C12_UnmatchedThroughCleared ==
  /\ ~local.read_path_end
  /\ LocationsCopied =>
       /\ Last(trip_path.location).path_edges = KeptFor(dest, Last(path).edgeid)
       /\ \A t \in 1..Len(through_loc) :
            trip_path.location[t + 1].path_edges =
              IF FirstOnPath(through_loc[t], LastMatched(t - 1)) = 0 THEN <<>>
              ELSE KeptFor(through_loc[t],
                           path[FirstOnPath(through_loc[t], LastMatched(t - 1))].edgeid)

\* the origin (w = 1) or the destination has no candidate on its path edge
Misses(w) ==
  IF w = 1 THEN path[1].edgeid \notin CandidateIds(origin)
  ELSE Last(path).edgeid \notin CandidateIds(dest)
\* C13: when the origin (destination) has no candidate on the first (last)
\* path edge, Build goes on, the leg's copy has no candidate, no projected_ll
\* and no side_of_street, and no percentage is read before it was assigned.
C13_MissLeavesNoProjection ==
  /\ ~local.uninit_read
  /\ \A w \in {1, 2} :
       (Misses(w) /\ LocationsCopied /\ pc # "crashed") =>
         LET copy == IF w = 1 THEN trip_path.location[1] ELSE Last(trip_path.location)
         IN /\ copy.path_edges = <<>>
            /\ copy.projected_ll = Unset
            /\ copy.side_of_street = "unset"

\* C14: after Build the caller's origin and destination themselves hold only
\* the candidate used by the path, or none.
C14_ArgumentsPruned ==
  Returned =>
    /\ origin.path_edges = KeptFor(initial.origin, path[1].edgeid)
    /\ dest.path_edges = KeptFor(initial.dest, Last(path).edgeid)

\* C15: with every attribute disabled AddTripEdge leaves the edge record with
\* no field set.
C15_EdgeFieldsGated ==
  controller = {} =>
    \A i \in 1..Len(trip_path.node) :
      trip_path.node[i].has_edge => EdgeOf(i) = [NoEdge EXCEPT !.step = EdgeOf(i).step]

\* the traversability the access bits give for a forward edge
AccessTable(fwd, rev) ==
  IF fwd /\ rev THEN "kBoth"
  ELSE IF fwd THEN "kForward"
  ELSE IF rev THEN "kBackward"
  ELSE "kNone"
SwapForwardBackward(t) ==
  IF t = "kForward" THEN "kBackward" ELSE IF t = "kBackward" THEN "kForward" ELSE t
\* the access bit a travel mode selects, none for a mode without one
MaskOf(mode) ==
  IF mode = "kBicycle" THEN {"bicycle"}
  ELSE IF mode = "kDrive" THEN {"auto"}
  ELSE IF mode \in {"kPedestrian", "kPublicTransit"} THEN {"pedestrian"}
  ELSE {}
ExpectedTraversability(mode, directededge) ==
  LET t == AccessTable(directededge.forwardaccess \cap MaskOf(mode) # {},
                       directededge.reverseaccess \cap MaskOf(mode) # {})
  IN IF directededge.forward THEN t ELSE SwapForwardBackward(t)
\* C17: the traversability follows the forward and reverse access bits under
\* the mode's mask for a forward edge, flipping the forward flag swaps Forward
\* and Backward and keeps Both and None, and a mode without a mask gives None;
\* every emitted traversability is that value.
C17_TraversabilityFlips ==
  /\ \A m \in TravelModes, fa \in AccessSets, ra \in AccessSets :
       /\ Traversability(m, EdgeWithAccess(TRUE, fa, ra))
            = AccessTable(fa \cap MaskOf(m) # {}, ra \cap MaskOf(m) # {})
       /\ Traversability(m, EdgeWithAccess(FALSE, fa, ra))
            = SwapForwardBackward(Traversability(m, EdgeWithAccess(TRUE, fa, ra)))
       /\ (m = "kOther" => \A f \in BOOLEAN :
                             Traversability(m, EdgeWithAccess(f, fa, ra)) = "kNone")
  /\ \A i \in 1..Len(trip_path.node) :
       trip_path.node[i].has_edge =>
         EdgeOf(i).traversability =
           IF attributes_at(controller, "kEdgeTraversability")
           THEN ExpectedTraversability(path[EdgeOf(i).step].mode,
                                       graphreader.directededge[EdgeOf(i).step])
           ELSE "unset"
C17_Witness ==
  /\ Returned
  /\ ~graphreader.directededge[1].forward
  /\ graphreader.directededge[1].forwardaccess = kAllAccess
  /\ graphreader.directededge[1].reverseaccess = kAutoAccess
  /\ path[1].mode = "kPublicTransit"
  /\ EdgeOf(1).traversability = "kBackward"

\* C16: two concurrent Build calls that own their leg and locations never are
\* about to access the same object, one of them writing it.
C16_NoConflictingAccess ==
  \A c \in DOMAIN builds, d \in DOMAIN builds :
    c # d => WritesOf(c) \cap (ReadsOf(d) \cup WritesOf(d)) = {}

\* the descriptors requested so far, each once, in order of first request
RECURSIVE FirstReferences(_)
FirstReferences(n) ==
  IF n = 0 THEN <<>>
  ELSE LET before == FirstReferences(n - 1)
           a == requested[n].admin_info
       IN IF \E i \in 1..Len(before) : before[i] = a THEN before ELSE Append(before, a)
\* C18: after any sequence of GetAdminIndex calls from an empty map and list
\* the list holds each requested descriptor once, in order of first request,
\* the map sends each descriptor to its position in the list, every call
\* returned that position (so the indices are dense), and a further request
\* of a known descriptor returns its index and changes neither map nor list.
C18_AdminInterning ==
  pc = "admin" =>
    LET list == local.admin_info_list
        map == local.admin_info_map
    IN /\ list = FirstReferences(Len(requested))
       /\ map = {<<list[i], i - 1>> : i \in 1..Len(list)}
       /\ \A n \in 1..Len(requested) :
            /\ requested[n].admin_index \in 0..(Len(list) - 1)
            /\ list[requested[n].admin_index + 1] = requested[n].admin_info
       /\ {requested[n].admin_index : n \in 1..Len(requested)} = 0..(Len(list) - 1)
       /\ \A i \in 1..Len(list) :
            GetAdminIndex(list[i], map, list) =
              [admin_index |-> i - 1, map |-> map, list |-> list]
C18_Witness ==
  /\ pc = "admin"
  /\ Len(requested) = 4
  /\ requested[1].admin_info = requested[3].admin_info
  /\ requested[1].admin_index = 0 /\ requested[3].admin_index = 0
  /\ requested[2].admin_index = 1 /\ requested[4].admin_index = 2
  /\ Len(local.admin_info_list) = 3

\* the edges the leg holds so far
EmittedEdges ==
  {trip_path.node[i].edge : i \in {j \in 1..Len(trip_path.node) : trip_path.node[j].has_edge}}
\* C19: a returned single-step leg whose two locations snap to the same
\* fraction of the edge has one edge and two nodes, its edge's length is the
\* clamp, and its shape has at least two points; every length written to an
\* edge of any leg is at least the clamp.
C19_DegenerateLegClamped ==
  /\ \A e \in EmittedEdges : e.length # Unset => e.length >= kMinLengthM
  /\ (Returned /\ attributes_at(controller, "kEdgeLength")) =>
       \A e \in EmittedEdges : e.length # Unset
  /\ (Returned /\ NumSteps = 1 /\ local.start_pct = local.end_pct) =>
       /\ Len(trip_path.node) = 2
       /\ trip_path.node[1].has_edge /\ ~trip_path.node[2].has_edge
       /\ attributes_at(controller, "kEdgeLength") =>
            trip_path.node[1].edge.length = kMinLengthM
       /\ Len(local.trip_shape) >= 2
       /\ attributes_at(controller, "kShape") => Len(trip_path.shape) >= 2
C19_Witness ==
  /\ Returned /\ NumSteps = 1
  /\ local.start_pct_assigned /\ local.end_pct_assigned
  /\ local.start_pct = local.end_pct
  /\ attributes_at(controller, "kEdgeLength")
  /\ Len(trip_path.node) = 2
  /\ trip_path.node[1].edge.length = kMinLengthM

\* C20: with node elapsed time enabled, the time handed to the edge assembler
\* at each step of the general loop is the starting time plus the elapsed
\* seconds of the path up to the node the step starts at: nothing at the
\* first step, the elapsed seconds of the step before at every later one.
C20_TimeInfoTracksElapsed ==
  attributes_at(controller, "kNodeElapsedTime") =>
    \A s \in 1..Len(local.edge_times) :
      local.edge_times[s] = IF s = 1 THEN 0 ELSE path[s - 1].elapsed_cost.secs

\* a shape runs from the begin node of the path edge towards its end node
RunsWithPathEdge(shape) == shape[1] < shape[Len(shape)]
\* C21: in the single-step case the stored shape is reversed exactly when
\* the direction of travel is opposite to the orientation it is stored in,
\* the opposing edge and the complemented fractions are used exactly when
\* start_pct > end_pct, and afterwards the shape runs in the direction of the
\* edge finally used, with start_pct <= end_pct.
C21_TrivialDecisionsConsistent ==
  local.trivial.taken =>
    LET t == local.trivial
        \* travel is along the path edge unless the destination lies before the origin
        along_path_edge == t.start_pct <= t.end_pct
        \* the stored shape runs along the path edge iff that edge is the forward twin
        stored_along_path_edge == t.forward
    IN /\ t.reversed <=> (along_path_edge # stored_along_path_edge)
       /\ t.opposing <=> (t.start_pct > t.end_pct)
       /\ t.edge_forward = (IF t.opposing THEN ~t.forward ELSE t.forward)
       /\ local.start_pct = (IF t.opposing THEN kPctScale - t.start_pct ELSE t.start_pct)
       /\ local.end_pct = (IF t.opposing THEN kPctScale - t.end_pct ELSE t.end_pct)
       /\ RunsWithPathEdge(t.shape) <=> ~t.opposing
       /\ local.start_pct <= local.end_pct

\* C22: every call of SetShapeAttributes for a step whose edge is a transit
\* line, or whose mode is public transit, is made with cut_for_traffic false
\* and puts no vertex into the shape.
C22_TransitNeverCut ==
  \A k \in 1..Len(local.cut_calls) :
    LET call == local.cut_calls[k] IN
    (call.transit_line \/ call.mode = "kPublicTransit") =>
      ~call.cut_for_traffic /\ call.inserted = 0

\* the fraction of the edge at which a point of the shape a call worked on lies
FractionAt(call, x) ==
  call.src_pct + (Abs(x - call.shape_out[1]) * kPctScale) \div kEdgeLengthM
\* the vertices a call put into the shape
InsertedBy(call) ==
  {call.shape_out[j] : j \in 1..Len(call.shape_out)}
    \ {call.shape_in[j] : j \in 1..Len(call.shape_in)}
\* C23: a call of SetShapeAttributes with src_pct <= tgt_pct never reads the
\* breakpoint cursor at the end of the list and leaves it on a tuple, emits
\* one entry of each enabled attribute per segment of the resulting shape,
\* inserts at most (tuples - 1) vertices, and inserts them only at breakpoints
\* other than the last tuple that lie past src_pct.
C23_CursorStaysOnTuple ==
  \A n \in 1..Len(local.cut_calls) :
    LET call == local.cut_calls[n] IN
    (call.has /\ call.src_pct <= call.tgt_pct) =>
      /\ ~call.past_end
      /\ call.speed_itr \in 1..Len(call.speeds)
      /\ call.inserted <= Len(call.speeds) - 1
      /\ call.inserted =
           call.speed_itr - (1 + Cardinality({k \in 1..Len(call.speeds) :
                                                call.speeds[k] < call.src_pct}))
      /\ \A x \in InsertedBy(call) :
           \E k \in 1..(Len(call.speeds) - 1) :
             /\ call.speeds[k] = FractionAt(call, x)
             /\ call.speeds[k] >= call.src_pct
      /\ \A c \in {call.times, call.lengths, call.speed_entries} :
           c \in {0, Len(call.shape_out) - 1}
      /\ attributes_at(controller, "kShapeAttributesTime") =>
           call.times = Len(call.shape_out) - 1
      /\ attributes_at(controller, "kShapeAttributesLength") =>
           call.lengths = Len(call.shape_out) - 1
      /\ attributes_at(controller, "kShapeAttributesSpeed") =>
           call.speed_entries = Len(call.shape_out) - 1
C23_Witness ==
  \E n \in 1..Len(local.cut_calls) :
    LET call == local.cut_calls[n] IN
    /\ call.has /\ call.src_pct <= call.tgt_pct
    /\ call.inserted >= 1
    /\ call.speeds[1] < call.src_pct
    /\ Len(call.speeds) >= 2

\* C24: no intersecting-edge record of a node stands for a shortcut, for the
\* path edge that leaves the node, for the opposing edge of the path edge
\* that enters it, or for an edge superseded by the leaving path edge when
\* that is a shortcut; on the node's level and across its transitions alike.
C24_IntersectingEdgesFiltered ==
  \A n \in 1..Len(trip_path.node) :
    trip_path.node[n].has_edge =>
      LET directededge == graphreader.directededge[n] IN
      \A k \in 1..Len(trip_path.node[n].intersecting_edge) :
        LET xedge == trip_path.node[n].intersecting_edge[k] IN
        /\ ~xedge.is_shortcut
        /\ xedge.localedgeidx # directededge.localedgeidx
        /\ n > 1 => xedge.localedgeidx # graphreader.directededge[n - 1].opp_local_idx
        /\ directededge.is_shortcut => (xedge.superseded \cap directededge.shortcut) = {}

\* the path step k starts at a transit platform
IsTransitStep(k) == graphreader.nodeinfo[k].is_transit
\* the type determined at the latest transit platform among the first k
\* steps whose edge is not a platform connection, Stop if there is none
RECURSIVE RunningType(_)
RunningType(k) ==
  IF k = 0 THEN "kStop"
  ELSE IF ~IsTransitStep(k) \/ graphreader.directededge[k].use = "kPlatformConnection"
  THEN RunningType(k - 1)
  ELSE IF graphreader.directededge[k].use = "kRail" THEN "kStation"
  ELSE "kStop"
\* C25: the type recorded at a transit node is Station for a rail edge, Stop
\* for an edge that is neither rail nor platform connection, and for a
\* platform connection the type determined at the latest earlier transit node
\* whose edge was none; the running type follows the path whether or not the
\* type attribute is enabled.
C25_PlatformTypeInherited ==
  /\ \A n \in 1..Len(trip_path.node) :
       LET info == trip_path.node[n].transit_platform_info IN
       (n <= NumSteps /\ IsTransitStep(n) /\ info.has
          /\ attributes_at(controller, "kNodeTransitPlatformInfoType")) =>
         info.type = (IF graphreader.directededge[n].use = "kRail" THEN "kStation"
                      ELSE IF graphreader.directededge[n].use = "kPlatformConnection"
                      THEN RunningType(n - 1)
                      ELSE "kStop")
  /\ pc \in {"loop", "recost", "done"} =>
       local.prev_transit_node_type = RunningType(local.edge_index)
C25_Witness ==
  /\ Returned /\ NumSteps = 3
  /\ graphreader.directededge[1].use = "kRail"
  /\ graphreader.directededge[2].use = "kPlatformConnection"
  /\ graphreader.directededge[3].use = "kPlatformConnection"
  /\ trip_path.node[2].transit_platform_info.type = "kStation"
  /\ trip_path.node[3].transit_platform_info.type = "kStation"

\* the latest step before n that starts at a transit platform, 0 if none
RECURSIVE PrevTransitStep(_)
PrevTransitStep(n) ==
  IF n <= 1 THEN 0
  ELSE IF IsTransitStep(n - 1) THEN n - 1
  ELSE PrevTransitStep(n - 1)
\* the departure of the trip of step k was found in the tile
DepartureFound(k) == path[k].trip_id # 0 /\ graphreader.directededge[k].departure.found
\* the arrival time computed from the departure found at step k
ArrivalFrom(k) ==
  LET transit_departure == graphreader.directededge[k].departure IN
  get_duration(origin.date_time,
               (transit_departure.departure_time + transit_departure.elapsed_time)
                 - (local.edge_times[k] % kSecondsPerDay))
\* C26: an arrival time stamped on a transit node was computed from the
\* departure found at the transit node just before it, and the block id
\* written to an edge is that of the departure found for the edge's own
\* trip, 0 if none was found: nothing of an earlier trip is passed on.
C26_NoStaleArrival ==
  \A n \in 1..Len(trip_path.node) :
    (trip_path.node[n].has_edge /\ n <= Len(local.edge_times)) =>
      LET info == trip_path.node[n].transit_platform_info
          p == PrevTransitStep(n)
          block_id == trip_path.node[n].edge.block_id
      IN /\ info.arrival_date_time # Unset =>
              /\ p > 0 /\ DepartureFound(p)
              /\ info.arrival_date_time = ArrivalFrom(p)
         /\ block_id # Unset =>
              block_id = (IF IsTransitStep(n) /\ DepartureFound(n)
                          THEN graphreader.directededge[n].departure.blockid ELSE 0)

\* C27: the departure a tile lookup did not find is never read through, for
\* an origin with or without a date and a tile made before or after it; the
\* node then has no departure time and Build goes on.
C27_MissingDepartureNotRead ==
  /\ ~local.null_departure_read
  /\ \A n \in 1..Len(trip_path.node) :
       (n <= NumSteps /\ IsTransitStep(n) /\ ~DepartureFound(n)) =>
         trip_path.node[n].transit_platform_info.departure_date_time = Unset

\* trimming info made from the candidate of a location on the given edge
TrimmedAt(location, edge_id, info) ==
  \E j \in 1..Len(location.path_edges) :
    /\ location.path_edges[j].graph_id = edge_id
    /\ info = [trim |-> TRUE, distance_along |-> location.path_edges[j].percent_along,
               vertex |-> location.path_edges[j].ll]
NodeSecondsUnder(ctl, n) ==
  IF ~attributes_at(ctl, "kNodeElapsedTime") \/ n = 1 THEN 0
  ELSE path[n - 1].elapsed_cost.secs
\* lines 1456-1461: the time_info in effect at path step s when the
\* controller is ctl
RECURSIVE TimeInfoUnder(_, _)
TimeInfoUnder(ctl, s) ==
  IF s = 1 THEN forward(0, 0)
  ELSE forward(TimeInfoUnder(ctl, s - 1), NodeSecondsUnder(ctl, s - 1))
\* lines 1607-1655: the departure time Build stamps on the platform of step
\* n when the controller is ctl
DepartureUnder(ctl, n) ==
  TransitPlatform(ctl, graphreader.nodeinfo[n], graphreader.directededge[n],
                  path[n].trip_id, origin.date_time, graphreader.date_created,
                  TimeInfoUnder(ctl, n), local, FALSE).info.departure_date_time
\* the controllers that differ from the call's in the node elapsed time only
ElapsedTimeToggled ==
  {controller \cup {"kNodeElapsedTime"}, controller \ {"kNodeElapsedTime"}}
\* the replay of the departure times under the call's own controller gives
\* what the leg holds
DepartureReplayed ==
  \A n \in 1..Len(trip_path.node) :
    n <= NumSteps =>
      trip_path.node[n].transit_platform_info.departure_date_time
        = DepartureUnder(controller, n)
\* C29: the controller selects which fields are emitted, never their values:
\* the departure time on a transit platform of the leg is the one a call on
\* the same inputs makes with the node elapsed time switched the other way,
\* whenever both calls emit it.
C29_ControllerSelectsOnly ==
  \A ctl \in ElapsedTimeToggled :
    \A n \in 1..Len(trip_path.node) :
      LET departure_date_time ==
            trip_path.node[n].transit_platform_info.departure_date_time
      IN (n <= NumSteps /\ departure_date_time # Unset
            /\ DepartureUnder(ctl, n) # Unset) =>
           departure_date_time = DepartureUnder(ctl, n)

\* the ids edge_cb yields when it is called once for every node of the leg
YieldedIds(node) == [i \in 1..Len(node) |-> edge_cb(node, i)]
\* the ids of the path steps followed by the invalid id
PathIds == [i \in 1..(NumSteps + 1) |-> IF i <= NumSteps THEN path[i].edgeid ELSE kInvalidGraphId]
\* C30: for every recosting the edge callback yields the edge ids of the
\* path steps in order and then an invalid id for the terminal node; the
\* k-th label's transition cost lands on node k and its elapsed cost on node
\* k+1, and with one label per edge the output cursor stays on the nodes.
C30_RecostCallbacks ==
  (pc \in {"recost", "done"} /\ options.recostings > 0) =>
    /\ YieldedIds(trip_path.node) = PathIds
    /\ \A r \in 1..local.recosting :
         LET labels == local.recost_log[r].labels IN
         /\ labels + 1 <= Len(trip_path.node)
         /\ ~local.recost_log[r].threw =>
              \A k \in 1..labels :
                /\ k < Len(trip_path.node) - 1 =>
                     trip_path.node[k].recosts[r].transition_cost
                       = LabelOf(r, k).transition_cost
                /\ trip_path.node[k + 1].recosts[r].elapsed_cost = LabelOf(r, k).cost

====
